---- MODULE Spec2Model ----
(***************************************************************************)
(* Header synchronization engine of iana-headers (src/c/iana_header_utils, *)
(* src/c/c_header_http.py and the standalone scripts).                     *)
(*                                                                         *)
(* Text model.  A Python str that the code only compares, joins or feeds   *)
(* to a character-class regex (a description, an identifier) is a sequence *)
(* of one-character strings.  The header document is a sequence of lexical *)
(* tokens; every token stands for a non-empty piece of text, so the empty  *)
(* sequence is the empty str.  The tokens are exactly the pieces that the  *)
(* code's regular expressions tell apart:                                  *)
(*   te     'typedef enum '                                                *)
(*   word   hand-written text without braces (s: its characters)           *)
(*   lb     '{'                                                            *)
(*   rb     '} NAME;' (s: NAME)                                            *)
(*   nl     '\n'                                                           *)
(*   head   the head comment line of an enum block, with its '\n'          *)
(*   rm     a range-marker comment '\n  /* a-b : text */\n' (v: its index) *)
(*   cmt    an entry comment line '  // text\n' (t: text)                  *)
(*   bind   an entry '  NAME = id' (s: NAME, v: id)                        *)
(*   comma  ',\n'                                                          *)
(*   depr   ' /* depreciated but identifier kept ... */'                   *)
(*   ms/me  '/* Start|End of S autogenerated section */' (s: S)            *)
(*   mhead  the head comment line of a macro section, with its '\n'        *)
(*   def    '#define NAME VALUE // comment\n' (s: NAME, t: field name)     *)
(***************************************************************************)
EXTENDS Integers, Sequences, FiniteSets, TLC

VARIABLES
    file,        \* the artifact file: [exists, text]
    pc,          \* position of the header update run
    content,     \* header_file_content, the in-memory document of the run
    started,     \* the file as it was when the current/last run began
    dupRows,     \* the status-code rows retained by the current/last run repeat an id
    outcome,     \* "none" | "ok" | "failed": how the last run ended
    synced,      \* the file was written by a completed run
    mIn,         \* merge study: [existing, fresh, policy] the inputs
    mOut,        \* merge study: [table, text] the merged table and its rendering
    mpc,         \* merge study: position
    sIn,         \* patch study: [doc, rows, fields] the inputs
    sOut,        \* patch study: <<first output, second output>>
    spc          \* patch study: position

vars == <<file, pc, content, started, dupRows, outcome, synced,
          mIn, mOut, mpc, sIn, sOut, spc>>

-----------------------------------------------------------------------------
(* Characters and strings *)

LowerCase == <<"a","b","c","d","e","f","g","h","i","j","k","l","m",
               "n","o","p","q","r","s","t","u","v","w","x","y","z">>
UpperCase == <<"A","B","C","D","E","F","G","H","I","J","K","L","M",
               "N","O","P","Q","R","S","T","U","V","W","X","Y","Z">>
Digits    == <<"0","1","2","3","4","5","6","7","8","9">>

Range(f) == {f[i] : i \in DOMAIN f}

IsDigit(c) == c \in Range(Digits)
IsAlnum(c) == c \in Range(LowerCase) \cup Range(UpperCase) \cup Range(Digits)
\* regex \w
IsWordChar(c) == IsAlnum(c) \/ c = "_"
\* regex \s
IsSpace(c) == c \in {" ", "\t", "\n"}

\* str.upper() on one character
UpperChar(c) ==
    IF c \in Range(LowerCase)
    THEN UpperCase[CHOOSE i \in DOMAIN LowerCase : LowerCase[i] = c]
    ELSE c

\* str.upper()
Upper(s) == [i \in DOMAIN s |-> UpperChar(s[i])]

\* str.lower() on one character
LowerChar(c) ==
    IF c \in Range(UpperCase)
    THEN LowerCase[CHOOSE i \in DOMAIN UpperCase : UpperCase[i] = c]
    ELSE c

\* str.lower()
Lower(s) == [i \in DOMAIN s |-> LowerChar(s[i])]

\* str.strip('_')
StripUnderscore(s) ==
    LET keep == {i \in DOMAIN s : s[i] # "_"}
    IN  IF keep = {} THEN <<>>
        ELSE LET lo == CHOOSE i \in keep : \A j \in keep : i <= j
                 hi == CHOOSE i \in keep : \A j \in keep : j <= i
             IN  SubSeq(s, lo, hi)

\* int(str) of a run of decimal digits
DigitValue(c) == (CHOOSE i \in DOMAIN Digits : Digits[i] = c) - 1

RECURSIVE IntOf(_)
IntOf(s) ==
    IF s = <<>> THEN 0
    ELSE 10 * IntOf(SubSeq(s, 1, Len(s) - 1)) + DigitValue(s[Len(s)])

\* the elements of a finite set of integers, largest first
RECURSIVE SortedDescending(_)
SortedDescending(S) ==
    IF S = {} THEN <<>>
    ELSE LET m == CHOOSE x \in S : \A y \in S : y <= x
         IN  <<m>> \o SortedDescending(S \ {m})

\* sorted(S) for a finite set of integers
RECURSIVE Sorted(_)
Sorted(S) ==
    IF S = {} THEN <<>>
    ELSE LET m == CHOOSE x \in S : \A y \in S : x <= y
         IN  <<m>> \o Sorted(S \ {m})

\* "-" in s
HasChar(s, c) == \E i \in DOMAIN s : s[i] = c

-----------------------------------------------------------------------------
(* Tokens of the document *)

Tok(k, s, v, t) == [k |-> k, s |-> s, v |-> v, t |-> t]

TE          == Tok("te", <<>>, 0, <<>>)
LB          == Tok("lb", <<>>, 0, <<>>)
NL          == Tok("nl", <<>>, 0, <<>>)
COMMA       == Tok("comma", <<>>, 0, <<>>)
DEPR        == Tok("depr", <<>>, 0, <<>>)
HEAD        == Tok("head", <<>>, 0, <<>>)
MHEAD       == Tok("mhead", <<>>, 0, <<>>)
RB(name)    == Tok("rb", name, 0, <<>>)
WORD(s)     == Tok("word", s, 0, <<>>)
RM(i)       == Tok("rm", <<>>, i, <<>>)
CMT(text)   == Tok("cmt", <<>>, 0, text)
BIND(n, id) == Tok("bind", n, id, <<>>)
MS(section) == Tok("ms", section, 0, <<>>)
ME(section) == Tok("me", section, 0, <<>>)
MACRODEF(n, fld) == Tok("def", n, 0, fld)

\* the token's text ends with '\n'
EndsWithNewline(tok) == tok.k \in {"nl", "comma", "head", "mhead", "rm", "cmt", "def"}

-----------------------------------------------------------------------------
(* Identifier synthesis of the HTTP registries *)

\* re.sub(r'\s+\(.*\)', '', s): the leftmost run of white space followed by
\* '(' is removed together with everything up to the last ')' of the string.
ParenAsideAt(s, i) ==
    \E j \in (i + 1)..Len(s) :
        /\ \A m \in i..(j - 1) : IsSpace(s[m])
        /\ s[j] = "("
        /\ \E k \in (j + 1)..Len(s) : s[k] = ")"

RemoveParenAside(s) ==
    LET starts == {i \in DOMAIN s : ParenAsideAt(s, i)}
    IN  IF starts = {} THEN s
        ELSE LET i == CHOOSE x \in starts : \A y \in starts : x <= y
                 closes == {k \in DOMAIN s : s[k] = ")"}
                 k == CHOOSE x \in closes : \A y \in closes : y <= x
             IN  SubSeq(s, 1, i - 1) \o SubSeq(s, k + 1, Len(s))

\* re.sub(r'[^a-zA-Z0-9_]', '_', s)
NonIdentToUnderscore(s) == [i \in DOMAIN s |-> IF IsWordChar(s[i]) THEN s[i] ELSE "_"]

http_status_code_name == <<"h","t","t","p","_","s","t","a","t","u","s","_","c","o","d","e">>
http_field_name_name  == <<"h","t","t","p","_","f","i","e","l","d","_","n","a","m","e">>

iana_http_status_codes_c_enum_name_generate(http_status_code, semantics, typedef_enum_name) ==
    LET sem == RemoveParenAside(semantics)
        c_enum_name == (Upper(typedef_enum_name) \o <<"_">>) \o NonIdentToUnderscore(sem)
    IN  Upper(StripUnderscore(c_enum_name))

iana_http_field_names_c_macro_name_generate(http_field_names, section_name) ==
    LET nm == RemoveParenAside(http_field_names)
        c_enum_name == (Upper(section_name) \o <<"_">>) \o NonIdentToUnderscore(nm)
    IN  Upper(StripUnderscore(c_enum_name))

-----------------------------------------------------------------------------
(* Entry table builder *)

\* an optional dict key is a sequence of length 0 (absent) or 1 (present)
Absent == <<>>
Present(x) == <<x>>

RefPrefix == <<";"," ","R","e","f",":"," ">>
RefOnly   == <<"R","e","f",":"," ">>

\* '; '.join(filter(None, [description, f'Ref: {reference}']))
JoinComment(description, reference) ==
    IF description = <<>> THEN RefOnly \o reference
    ELSE (description \o RefPrefix) \o reference

Unassigned == <<"u","n","a","s","s","i","g","n","e","d">>
Reserved   == <<"r","e","s","e","r","v","e","d">>

\* the rows that reach the table: the 'continue' filters of the parse loop
RowRetained(row) ==
    /\ row.Value # <<>>
    /\ Lower(row.Description) # Unassigned
    /\ Lower(row.Description) # Reserved
    /\ ~HasChar(row.Value, "-")

RECURSIVE ParseRowsFrom(_, _, _)
ParseRowsFrom(rows, i, enum_list) ==
    IF i > Len(rows) THEN enum_list
    ELSE LET row == rows[i]
         IN  IF ~RowRetained(row) THEN ParseRowsFrom(rows, i + 1, enum_list)
             ELSE LET comment == JoinComment(row.Description, row.Reference)
                      enum_name == iana_http_status_codes_c_enum_name_generate(
                                       row.Value, row.Description, http_status_code_name)
                      key == IntOf(row.Value)
                      entry == [enum_name |-> enum_name,
                                comment |-> Present(comment),
                                depreciated_enum_name |-> Absent]
                      next == [k \in DOMAIN enum_list \cup {key} |->
                                  IF k = key THEN entry ELSE enum_list[k]]
                  IN  ParseRowsFrom(rows, i + 1, next)

EmptyTable == [k \in {} |-> 0]

iana_http_status_codes_parse_csv(csv_content, typedef_enum_name) ==
    ParseRowsFrom(csv_content, 1, EmptyTable)

-----------------------------------------------------------------------------
(* Existing-block extractor *)

NoMatch == [found |-> FALSE, start |-> 0, open |-> 0, close |-> 0]

\* a matcher that accepts the closing line of any block, whatever its name
EnumMatchAnyName(c_code, i, typedef_enum_name) ==
    IF c_code[i].k # "te" THEN NoMatch
    ELSE LET opens == {j \in (i + 1)..Len(c_code) : c_code[j].k = "lb"}
         IN  IF opens = {} THEN NoMatch
             ELSE LET j == CHOOSE x \in opens : \A y \in opens : x <= y
                      closes == {k \in (j + 1)..Len(c_code) : c_code[k].k = "rb"}
                  IN  IF closes = {} THEN NoMatch
                      ELSE [found |-> TRUE, start |-> i, open |-> j,
                            close |-> CHOOSE x \in closes : \A y \in closes : x <= y]

\* fr'typedef enum [^{{]*\{{([^}}]*)\}} {typedef_enum_name};' matched at token i:
\* 'typedef enum ', then text without '{' up to the first '{', then text
\* without '}' up to the first '}', which must read '} NAME;'.
EnumMatchAt(c_code, i, typedef_enum_name) ==
    IF c_code[i].k # "te" THEN NoMatch
    ELSE LET opens == {j \in (i + 1)..Len(c_code) : c_code[j].k = "lb"}
         IN  IF opens = {} THEN NoMatch
             ELSE LET j == CHOOSE x \in opens : \A y \in opens : x <= y
                      closes == {k \in (j + 1)..Len(c_code) : c_code[k].k = "rb"}
                  IN  IF closes = {} THEN NoMatch
                      ELSE LET k == CHOOSE x \in closes : \A y \in closes : x <= y
                           IN  IF c_code[k].s = typedef_enum_name
                               THEN [found |-> TRUE, start |-> i, open |-> j, close |-> k]
                               ELSE NoMatch

\* the leftmost match that starts at or after token p (re.search with p = 1)
EnumSearchFrom(c_code, p, typedef_enum_name) ==
    LET starts == {i \in p..Len(c_code) : EnumMatchAt(c_code, i, typedef_enum_name).found}
    IN  IF starts = {} THEN NoMatch
        ELSE EnumMatchAt(c_code, CHOOSE x \in starts : \A y \in starts : x <= y,
                         typedef_enum_name)

\* Python None / a str
None == [isNone |-> TRUE, str |-> <<>>]
Some(str) == [isNone |-> FALSE, str |-> str]
\* 'not x' for x a str or None
Not(x) == x.isNone \/ x.str = <<>>

get_content_of_typedef_enum(c_code, typedef_enum_name) ==
    LET match == EnumSearchFrom(c_code, 1, typedef_enum_name)
    IN  IF ~match.found THEN None
        ELSE Some(SubSeq(c_code, match.open + 1, match.close - 1))

\* re.findall(r'(\w+)\s*=\s*(\d+)', text) on a run of characters, from position p
RECURSIVE RunEnd(_, _, _)
RunEnd(t, p, isDigitRun) ==
    IF p + 1 <= Len(t) /\ (IF isDigitRun THEN IsDigit(t[p + 1]) ELSE IsWordChar(t[p + 1]))
    THEN RunEnd(t, p + 1, isDigitRun)
    ELSE p

RECURSIVE SkipSpace(_, _)
SkipSpace(t, p) == IF p <= Len(t) /\ IsSpace(t[p]) THEN SkipSpace(t, p + 1) ELSE p

RECURSIVE FindAllFrom(_, _)
FindAllFrom(t, p) ==
    IF p > Len(t) THEN <<>>
    ELSE IF ~IsWordChar(t[p]) THEN FindAllFrom(t, p + 1)
    ELSE LET e == RunEnd(t, p, FALSE)
             q == SkipSpace(t, e + 1)
             r == SkipSpace(t, q + 1)
         IN  IF q <= Len(t) /\ t[q] = "=" /\ r <= Len(t) /\ IsDigit(t[r])
             THEN LET d == RunEnd(t, r, TRUE)
                  IN  <<[enum_name |-> SubSeq(t, p, e),
                         enum_value |-> IntOf(SubSeq(t, r, d))]>> \o FindAllFrom(t, d + 1)
             ELSE FindAllFrom(t, e + 1)

\* the matches of the pattern inside one token
TokenMatches(tok) ==
    CASE tok.k = "bind" -> <<[enum_name |-> tok.s, enum_value |-> tok.v]>>
      [] tok.k = "cmt"  -> FindAllFrom(tok.t, 1)
      [] tok.k = "word" -> FindAllFrom(tok.s, 1)
      [] OTHER          -> <<>>

RECURSIVE FindAllTokens(_, _)
FindAllTokens(existing_enum_content, i) ==
    IF i > Len(existing_enum_content) THEN <<>>
    ELSE TokenMatches(existing_enum_content[i]) \o FindAllTokens(existing_enum_content, i + 1)

RECURSIVE CollectMatches(_, _, _)
CollectMatches(matches, i, enum_values) ==
    IF i > Len(matches) THEN enum_values
    ELSE LET enum_name == matches[i].enum_name
             enum_value == matches[i].enum_value
             next == [k \in DOMAIN enum_values \cup {enum_value} |->
                         IF k = enum_value
                         THEN (IF enum_value \in DOMAIN enum_values
                               THEN Append(enum_values[enum_value], enum_name)
                               ELSE <<enum_name>>)
                         ELSE enum_values[k]]
         IN  CollectMatches(matches, i + 1, next)

\* the outcome of a call: an exception, or a returned value
Raise(error) == [raised |-> TRUE, error |-> error, value |-> EmptyTable]
Return(value) == [raised |-> FALSE, error |-> "", value |-> value]

\* existing_enum_content is what get_content_of_typedef_enum returned;
\* re.findall(pattern, None) raises TypeError
extract_enum_values_from_typedef_enum(c_code, existing_enum_content) ==
    IF existing_enum_content.isNone THEN Raise("TypeError")
    ELSE Return(CollectMatches(FindAllTokens(existing_enum_content.str, 1), 1, EmptyTable))

-----------------------------------------------------------------------------
(* Block merger *)

\* a merger that lets the existing name win whatever the policy
OverrideOneExistingWins(c_enum_list, id_value, existing_enum_name, depreciated_enum_support) ==
    IF id_value \in DOMAIN c_enum_list
    THEN [c_enum_list EXCEPT ![id_value].enum_name = existing_enum_name]
    ELSE [k \in DOMAIN c_enum_list \cup {id_value} |->
             IF k = id_value
             THEN [enum_name |-> existing_enum_name, comment |-> Absent,
                   depreciated_enum_name |-> Absent]
             ELSE c_enum_list[k]]

\* a merger that keeps the fresh name and records an alias whatever the policy
OverrideOneAlwaysAlias(c_enum_list, id_value, existing_enum_name, depreciated_enum_support) ==
    IF id_value \in DOMAIN c_enum_list
    THEN IF existing_enum_name # c_enum_list[id_value].enum_name
         THEN [c_enum_list EXCEPT ![id_value].depreciated_enum_name = Present(existing_enum_name)]
         ELSE c_enum_list
    ELSE [k \in DOMAIN c_enum_list \cup {id_value} |->
             IF k = id_value
             THEN [enum_name |-> existing_enum_name, comment |-> Absent,
                   depreciated_enum_name |-> Absent]
             ELSE c_enum_list[k]]

\* the body of the two nested loops, for one existing name of one id
OverrideOne(c_enum_list, id_value, existing_enum_name, depreciated_enum_support) ==
    IF id_value \in DOMAIN c_enum_list
    THEN LET expected_enum_name == c_enum_list[id_value].enum_name
         IN  IF existing_enum_name # expected_enum_name
             THEN IF depreciated_enum_support
                  THEN [c_enum_list EXCEPT
                           ![id_value].depreciated_enum_name = Present(existing_enum_name)]
                  ELSE [c_enum_list EXCEPT ![id_value].enum_name = existing_enum_name]
             ELSE c_enum_list
    ELSE [k \in DOMAIN c_enum_list \cup {id_value} |->
             IF k = id_value
             THEN [enum_name |-> existing_enum_name, comment |-> Absent,
                   depreciated_enum_name |-> Absent]
             ELSE c_enum_list[k]]

RECURSIVE OverrideNames(_, _, _, _, _)
OverrideNames(c_enum_list, id_value, names, i, depreciated_enum_support) ==
    IF i > Len(names) THEN c_enum_list
    ELSE OverrideNames(OverrideOne(c_enum_list, id_value, names[i], depreciated_enum_support),
                       id_value, names, i + 1, depreciated_enum_support)

RECURSIVE OverrideIds(_, _, _, _, _)
OverrideIds(c_enum_list, existing_enum_name_list, ids, i, depreciated_enum_support) ==
    IF i > Len(ids) THEN c_enum_list
    ELSE OverrideIds(OverrideNames(c_enum_list, ids[i], existing_enum_name_list[ids[i]], 1,
                                   depreciated_enum_support),
                     existing_enum_name_list, ids, i + 1, depreciated_enum_support)

\* the merge loop over an already extracted id -> names mapping
MergeExisting(existing_enum_name_list, c_enum_list, depreciated_enum_support) ==
    OverrideIds(c_enum_list, existing_enum_name_list,
                Sorted(DOMAIN existing_enum_name_list), 1, depreciated_enum_support)

override_enum_from_existing_typedef_enum(header_file_content, c_typedef_name, c_enum_list, depreciated_enum_support) ==
    LET existing_enum_content == get_content_of_typedef_enum(header_file_content, c_typedef_name)
        existing_enum_name_list ==
            extract_enum_values_from_typedef_enum(header_file_content, existing_enum_content)
    IN  IF existing_enum_name_list.raised THEN existing_enum_name_list
        ELSE Return(MergeExisting(existing_enum_name_list.value, c_enum_list,
                                  depreciated_enum_support))

-----------------------------------------------------------------------------
(* Block renderer *)

\* id_value=None of range_marker_render
NoId == -1

\* a marker renderer that emits nothing once the entries are done
RangeMarkerNoFlush(c_range_marker, c_range_marker_index, id_value) ==
    [text |-> <<>>, index |-> c_range_marker_index]

\* range_marker_render: the markers emitted for id_value from position index on
RECURSIVE range_marker_render(_, _, _)
range_marker_render(c_range_marker, c_range_marker_index, id_value) ==
    IF c_range_marker_index > Len(c_range_marker)
    THEN [text |-> <<>>, index |-> c_range_marker_index]
    ELSE LET start_range == c_range_marker[c_range_marker_index].start
         IN  IF id_value = NoId \/ start_range <= id_value
             THEN LET rest == range_marker_render(c_range_marker, c_range_marker_index + 1,
                                                  id_value)
                  IN  [text |-> <<RM(c_range_marker_index)>> \o rest.text, index |-> rest.index]
             ELSE [text |-> <<>>, index |-> c_range_marker_index]

\* an entry renderer that ends every entry with a comma
RenderRowAlwaysComma(row, id_value, isLast) ==
    ((IF row.comment # Absent THEN <<CMT(row.comment[1])>> ELSE <<>>)
        \o <<BIND(row.enum_name, id_value)>>)
    \o ((IF row.depreciated_enum_name # Absent
         THEN <<COMMA, BIND(row.depreciated_enum_name[1], id_value), DEPR>>
         ELSE <<>>)
        \o <<COMMA>>)

\* the text of one entry: its comment line, its name, its deprecated alias
RenderRow(row, id_value, isLast) ==
    ((IF row.comment # Absent THEN <<CMT(row.comment[1])>> ELSE <<>>)
        \o <<BIND(row.enum_name, id_value)>>)
    \o ((IF row.depreciated_enum_name # Absent
         THEN <<COMMA, BIND(row.depreciated_enum_name[1], id_value), DEPR>>
         ELSE <<>>)
        \o <<IF isLast THEN NL ELSE COMMA>>)

RECURSIVE GenerateFrom(_, _, _, _, _)
GenerateFrom(c_enum_list, c_range_marker, ids, pos, index) ==
    IF pos > Len(ids) THEN range_marker_render(c_range_marker, index, NoId).text
    ELSE LET id_value == ids[pos]
             marker == range_marker_render(c_range_marker, index, id_value)
         IN  (marker.text \o RenderRow(c_enum_list[id_value], id_value,
                                       id_value = ids[Len(ids)]))
             \o GenerateFrom(c_enum_list, c_range_marker, ids, pos + 1, marker.index)

\* c_range_marker = None renders like the empty list
generate_c_enum_content(c_head_comment, c_enum_list, c_range_marker) ==
    c_head_comment \o GenerateFrom(c_enum_list, c_range_marker,
                                   Sorted(DOMAIN c_enum_list), 1, 1)

-----------------------------------------------------------------------------
(* Document patcher: enum blocks *)

\* re.sub(pattern, replacement, document_content): every non-overlapping match,
\* left to right, from token p on
RECURSIVE EnumSubFrom(_, _, _, _)
EnumSubFrom(document_content, p, typename, replacement) ==
    LET match == EnumSearchFrom(document_content, p, typename)
    IN  IF ~match.found THEN SubSeq(document_content, p, Len(document_content))
        ELSE (SubSeq(document_content, p, match.start - 1) \o replacement)
             \o EnumSubFrom(document_content, match.close + 1, typename, replacement)

search_and_replace_c_typedef_enum(document_content, c_enum_content, typename, enumname) ==
    LET replacement == ((<<TE, WORD(enumname), LB, NL>>) \o c_enum_content) \o <<RB(typename)>>
    IN  EnumSubFrom(document_content, 1, typename, replacement)

\* f'typedef enum {{\n}} {c_typedef_name};\n\n'
EmptyEnumBlock(c_typedef_name) == <<TE, LB, NL, RB(c_typedef_name), NL, NL>>

update_c_typedef_enum(document_content, c_typedef_name, c_enum_name, c_head_comment, c_enum_list, c_range_marker) ==
    LET doc == IF Not(get_content_of_typedef_enum(document_content, c_typedef_name))
               THEN document_content \o EmptyEnumBlock(c_typedef_name)
               ELSE document_content
        \* doc holds the block, appended or found: the merge returns
        merged == override_enum_from_existing_typedef_enum(doc, c_typedef_name, c_enum_list,
                                                           TRUE).value
        c_enum_content == generate_c_enum_content(c_head_comment, merged, c_range_marker)
    IN  search_and_replace_c_typedef_enum(doc, c_enum_content, c_typedef_name, c_enum_name)

-----------------------------------------------------------------------------
(* Document patcher: macro sections *)

\* the first End marker of the section after token i; 0 if none
FirstEndAfter(c_code, i, section_name, needNewline) ==
    LET ends == {k \in (i + 1)..Len(c_code) :
                    /\ c_code[k] = ME(section_name)
                    /\ (needNewline => EndsWithNewline(c_code[k - 1]))}
    IN  IF ends = {} THEN 0 ELSE CHOOSE x \in ends : \A y \in ends : x <= y

\* leftmost Start marker at or after p from which the pattern matches; 0 if none
MacroStartFrom(c_code, p, section_name, needNewline) ==
    LET starts == {i \in p..Len(c_code) :
                      /\ c_code[i] = MS(section_name)
                      /\ FirstEndAfter(c_code, i, section_name, needNewline) # 0}
    IN  IF starts = {} THEN 0 ELSE CHOOSE x \in starts : \A y \in starts : x <= y

\* pattern Start(.*?)End
get_content_of_const_macro(c_code, section_name) ==
    LET i == MacroStartFrom(c_code, 1, section_name, FALSE)
    IN  IF i = 0 THEN None
        ELSE Some(SubSeq(c_code, i + 1, FirstEndAfter(c_code, i, section_name, FALSE) - 1))

\* re.sub with pattern Start(.*?)\nEnd
RECURSIVE MacroSubFrom(_, _, _, _)
MacroSubFrom(document_content, p, section_name, replacement) ==
    LET i == MacroStartFrom(document_content, p, section_name, TRUE)
    IN  IF i = 0 THEN SubSeq(document_content, p, Len(document_content))
        ELSE (SubSeq(document_content, p, i - 1) \o replacement)
             \o MacroSubFrom(document_content,
                             FirstEndAfter(document_content, i, section_name, TRUE) + 1,
                             section_name, replacement)

search_and_replace_c_const_macro(document_content, section_name, new_content) ==
    MacroSubFrom(document_content, 1, section_name,
                 (<<MS(section_name), NL>> \o new_content) \o <<ME(section_name)>>)

\* code points of the characters identifiers are made of, for sorted() on str keys
CharOrder == (Digits \o UpperCase) \o (<<"_">> \o LowerCase)
Ord(c) == CHOOSE i \in DOMAIN CharOrder : CharOrder[i] = c

\* a < b for two str
RECURSIVE StrLess(_, _)
StrLess(a, b) ==
    IF b = <<>> THEN FALSE
    ELSE IF a = <<>> THEN TRUE
    ELSE IF a[1] # b[1] THEN Ord(a[1]) < Ord(b[1])
    ELSE StrLess(Tail(a), Tail(b))

RECURSIVE SortedStr(_)
SortedStr(S) ==
    IF S = {} THEN <<>>
    ELSE LET m == CHOOSE x \in S : \A y \in S \ {x} : StrLess(x, y)
         IN  <<m>> \o SortedStr(S \ {m})

RECURSIVE MacroLines(_, _, _)
MacroLines(c_macro_list, names, i) ==
    IF i > Len(names) THEN <<>>
    ELSE <<MACRODEF(names[i], c_macro_list[names[i]])>> \o MacroLines(c_macro_list, names, i + 1)

update_c_const_macro(document_content, section_name, c_head_comment, c_macro_list) ==
    LET doc == IF Not(get_content_of_const_macro(document_content, section_name))
               THEN document_content \o <<MS(section_name), NL, ME(section_name)>>
               ELSE document_content
        c_const_macro_content ==
            c_head_comment \o MacroLines(c_macro_list, SortedStr(DOMAIN c_macro_list), 1)
    IN  search_and_replace_c_const_macro(doc, section_name, c_const_macro_content)

\* c_macro_list maps a macro name to the field name its value and comment are made of
RECURSIVE ParseFieldsFrom(_, _, _)
ParseFieldsFrom(rows, i, c_macro_list) ==
    IF i > Len(rows) THEN c_macro_list
    ELSE IF rows[i] = <<>> THEN ParseFieldsFrom(rows, i + 1, c_macro_list)
    ELSE LET macro_name == iana_http_field_names_c_macro_name_generate(rows[i],
                                                                      http_field_name_name)
             next == [k \in DOMAIN c_macro_list \cup {macro_name} |->
                         IF k = macro_name THEN rows[i] ELSE c_macro_list[k]]
         IN  ParseFieldsFrom(rows, i + 1, next)

iana_http_field_namess_parse_csv(csv_content, section_name) ==
    ParseFieldsFrom(csv_content, 1, EmptyTable)

-----------------------------------------------------------------------------
(* The HTTP header update run (c_header_http.py) *)

MaxRows == 2
MaxFieldRows == 1

Str200 == <<"2","0","0">>
Str404 == <<"4","0","4">>
DescOK   == <<"O","K">>
DescGone == <<"G","o","n","e"," ","(","x",")">>
DescEq   == <<"a","=","4","0","4">>
Reference == <<"R">>
OLD == <<"O","L","D">>
FieldTE == <<"T","E">>

RunValues == {Str200, Str404}
RunDescriptions == {DescOK, DescGone}

RowsOver(values, descriptions, n) ==
    UNION {[1..m -> [Value : values, Description : descriptions, Reference : {Reference}]]
           : m \in 0..n}

FieldRowsOver(names, n) == UNION {[1..m -> names] : m \in 0..n}

http_status_code_t == http_status_code_name \o <<"_","t">>

\* c_range_marker of iana_http_status_codes_c_typedef_enum_update
http_range_marker ==
    << [start |-> 100, end |-> 199], [start |-> 200, end |-> 299],
       [start |-> 300, end |-> 399], [start |-> 400, end |-> 499],
       [start |-> 500, end |-> 599] >>

\* default_http_header_c: a blank line, two comment lines, a blank line
default_http_header_c ==
    <<NL, WORD(<<"/","/","I","A","N","A">>), NL, WORD(<<"/","/","S","o","u","r","c","e">>), NL, NL>>

\* the part of iana_http_status_codes_c_typedef_enum_update after the fetch
iana_http_status_codes_c_typedef_enum_update(header_file_content, csv_content) ==
    update_c_typedef_enum(header_file_content, http_status_code_t, http_status_code_t, <<HEAD>>,
                          iana_http_status_codes_parse_csv(csv_content, http_status_code_name),
                          http_range_marker)

\* the part of iana_http_field_names_c_const_macro_update after the fetch
iana_http_field_names_c_const_macro_update(header_file_content, csv_content) ==
    update_c_const_macro(header_file_content, http_field_name_name, <<MHEAD>>,
                         iana_http_field_namess_parse_csv(csv_content, http_field_name_name))

\* two retained rows carry the same numeric id
HasDuplicateId(rows) ==
    \E i, j \in DOMAIN rows :
        /\ i < j
        /\ RowRetained(rows[i]) /\ RowRetained(rows[j])
        /\ IntOf(rows[i].Value) = IntOf(rows[j].Value)

Missing == [exists |-> FALSE, text |-> <<>>]
OnDisk(text) == [exists |-> TRUE, text |-> text]

\* 'if not os.path.exists(header_filepath): write default_http_header_c'
EnsureHeaderFile(f) == IF ~f.exists THEN OnDisk(default_http_header_c) ELSE f

\* an exception of a fetch propagates out of the run: nothing is written
FileOnAbort(f, header_file_content) == f

\* the hand-written artifacts a first run may find
InitialTexts ==
    { <<WORD(<<"x">>)>>,
      <<WORD(<<"x">>), TE, LB, NL, BIND(OLD, 200), NL, RB(http_status_code_t), WORD(<<"y">>)>>,
      <<TE, LB, RB(http_status_code_t), WORD(<<"y">>)>> }

IdleStudies ==
    /\ mIn = <<>> /\ mOut = <<>> /\ mpc = "off"
    /\ sIn = <<>> /\ sOut = <<>> /\ spc = "off"

Init ==
    /\ file \in {Missing} \cup {OnDisk(t) : t \in InitialTexts}
    /\ pc = "idle"
    /\ content = <<>>
    /\ started = [exists |-> FALSE, text |-> <<>>, synced |-> FALSE]
    /\ dupRows = FALSE
    /\ outcome = "none"
    /\ synced = FALSE
    /\ IdleStudies

StudiesUnchanged == UNCHANGED <<mIn, mOut, mpc, sIn, sOut, spc>>

\* iana_http_c_header_update up to the read of the file
Begin ==
    /\ pc = "idle"
    /\ started' = [exists |-> file.exists, text |-> file.text, synced |-> synced]
    /\ file' = EnsureHeaderFile(file)
    /\ content' = file'.text
    /\ synced' = (synced /\ file.exists)
    /\ dupRows' = FALSE
    /\ outcome' = "none"
    /\ pc' = "status"
    /\ StudiesUnchanged

\* the status-code block: the fetch returns csv_content
StatusCodes ==
    /\ pc = "status"
    /\ \E csv_content \in RowsOver(RunValues, RunDescriptions, MaxRows) :
          /\ content' = iana_http_status_codes_c_typedef_enum_update(content, csv_content)
          /\ dupRows' = HasDuplicateId(csv_content)
    /\ pc' = "fields"
    /\ UNCHANGED <<file, started, outcome, synced>>
    /\ StudiesUnchanged

\* the field-name section: the fetch returns csv_content
FieldNames ==
    /\ pc = "fields"
    /\ \E csv_content \in FieldRowsOver({FieldTE}, MaxFieldRows) :
          content' = iana_http_field_names_c_const_macro_update(content, csv_content)
    /\ pc' = "write"
    /\ UNCHANGED <<file, started, dupRows, outcome, synced>>
    /\ StudiesUnchanged

\* read_or_download_csv raises in either block
FetchFails ==
    /\ pc \in {"status", "fields"}
    /\ file' = FileOnAbort(file, content)
    /\ outcome' = "failed"
    /\ pc' = "idle"
    /\ UNCHANGED <<content, started, dupRows, synced>>
    /\ StudiesUnchanged

\* 'with open(header_filepath, "w") as file: file.write(header_file_content)'
Write ==
    /\ pc = "write"
    /\ file' = OnDisk(content)
    /\ outcome' = "ok"
    /\ synced' = TRUE
    /\ pc' = "idle"
    /\ UNCHANGED <<content, started, dupRows>>
    /\ StudiesUnchanged

Next == Begin \/ StatusCodes \/ FieldNames \/ FetchFails \/ Write

Spec == Init /\ [][Next]_vars

-----------------------------------------------------------------------------
(* The merge of the standalone CoAP and CBOR scripts: the extractor keeps one
   name per id and the existing name always wins *)

RECURSIVE CoapCollectMatches(_, _, _)
CoapCollectMatches(matches, i, enum_values) ==
    IF i > Len(matches) THEN enum_values
    ELSE CoapCollectMatches(matches, i + 1,
            [k \in DOMAIN enum_values \cup {matches[i].enum_value} |->
                IF k = matches[i].enum_value THEN matches[i].enum_name ELSE enum_values[k]])

RECURSIVE CoapOverrideIds(_, _, _, _)
CoapOverrideIds(c_enum_list, existing_enum_name, ids, i) ==
    IF i > Len(ids) THEN c_enum_list
    ELSE LET id_value == ids[i]
             next == IF id_value \in DOMAIN c_enum_list
                     THEN [c_enum_list EXCEPT ![id_value].enum_name = existing_enum_name[id_value]]
                     ELSE [k \in DOMAIN c_enum_list \cup {id_value} |->
                              IF k = id_value
                              THEN [enum_name |-> existing_enum_name[id_value],
                                    comment |-> Absent, depreciated_enum_name |-> Absent]
                              ELSE c_enum_list[k]]
         IN  CoapOverrideIds(next, existing_enum_name, ids, i + 1)

\* the merge loop of the standalone scripts over the list of regex matches
coap_override_enum_from_existing_typedef_enum(matches, c_enum_list) ==
    LET existing_enum_name == CoapCollectMatches(matches, 1, EmptyTable)
    IN  CoapOverrideIds(c_enum_list, existing_enum_name, Sorted(DOMAIN existing_enum_name), 1)

\* the renderer of the standalone scripts: the same loop without the alias line
coap_generate_c_enum_content(c_head_comment, c_enum_list, c_range_marker) ==
    generate_c_enum_content(c_head_comment,
        [k \in DOMAIN c_enum_list |-> [c_enum_list[k] EXCEPT !.depreciated_enum_name = Absent]],
        c_range_marker)

\* fr'typedef enum \{{([^}}]*)\}} {typedef_enum_name};' matched at token i:
\* 'typedef enum ' directly followed by '{'
CoapEnumMatchAt(c_code, i, typedef_enum_name) ==
    IF c_code[i].k # "te" \/ i + 1 > Len(c_code) THEN NoMatch
    ELSE IF c_code[i + 1].k # "lb" THEN NoMatch
    ELSE LET closes == {k \in (i + 2)..Len(c_code) : c_code[k].k = "rb"}
         IN  IF closes = {} THEN NoMatch
             ELSE LET k == CHOOSE x \in closes : \A y \in closes : x <= y
                  IN  IF c_code[k].s = typedef_enum_name
                      THEN [found |-> TRUE, start |-> i, open |-> i + 1, close |-> k]
                      ELSE NoMatch

CoapEnumSearchFrom(c_code, p, typedef_enum_name) ==
    LET starts == {i \in p..Len(c_code) : CoapEnumMatchAt(c_code, i, typedef_enum_name).found}
    IN  IF starts = {} THEN NoMatch
        ELSE CoapEnumMatchAt(c_code, CHOOSE x \in starts : \A y \in starts : x <= y,
                             typedef_enum_name)

coap_get_content_of_typedef_enum(c_code, typedef_enum_name) ==
    LET match == CoapEnumSearchFrom(c_code, 1, typedef_enum_name)
    IN  IF ~match.found THEN None
        ELSE Some(SubSeq(c_code, match.open + 1, match.close - 1))

\* iana-coap-header.py: the block name is fixed in the pattern
coap_content_format_t ==
    <<"c","o","a","p","_","c","o","n","t","e","n","t","_","f","o","r","m","a","t","_","t">>

extract_enum_values_from_c_code(c_code) ==
    LET match == CoapEnumSearchFrom(c_code, 1, coap_content_format_t)
    IN  IF ~match.found THEN Return(EmptyTable)
        ELSE Return(CoapCollectMatches(
                 FindAllTokens(SubSeq(c_code, match.open + 1, match.close - 1), 1),
                 1, EmptyTable))

RECURSIVE CoapEnumSubFrom(_, _, _, _)
CoapEnumSubFrom(document_content, p, typename, replacement) ==
    LET match == CoapEnumSearchFrom(document_content, p, typename)
    IN  IF ~match.found THEN SubSeq(document_content, p, Len(document_content))
        ELSE (SubSeq(document_content, p, match.start - 1) \o replacement)
             \o CoapEnumSubFrom(document_content, match.close + 1, typename, replacement)

\* replacement f'typedef enum {{\n{c_enum_content}\n}} {typename};'
coap_search_and_replace_c_typedef_enum(document_content, typename, c_enum_content) ==
    CoapEnumSubFrom(document_content, 1, typename,
                    (<<TE, LB, NL>> \o c_enum_content) \o <<NL, RB(typename)>>)

coap_update_c_typedef_enum(document_content, c_typedef_name, c_head_comment, c_enum_list, c_range_marker) ==
    LET doc == IF Not(coap_get_content_of_typedef_enum(document_content, c_typedef_name))
               THEN document_content \o EmptyEnumBlock(c_typedef_name)
               ELSE document_content
        existing_enum_content == coap_get_content_of_typedef_enum(doc, c_typedef_name)
        merged == coap_override_enum_from_existing_typedef_enum(
                      FindAllTokens(existing_enum_content.str, 1), c_enum_list)
        c_enum_content == coap_generate_c_enum_content(c_head_comment, merged, c_range_marker)
    IN  coap_search_and_replace_c_typedef_enum(doc, c_typedef_name, c_enum_content)

-----------------------------------------------------------------------------
(* The standalone CBOR generator (src/cbor/iana-cbor-c-header.py): the block
   reader, the merger and the patcher are those of the standalone CoAP script *)

\* the renderer tests row["comment"], a key the merger does not give the
\* entries it adds for ids of the existing block: KeyError. An empty comment
\* gives no comment line
cbor_generate_c_enum_content(c_head_comment, c_enum_list, c_range_marker) ==
    IF \E k \in DOMAIN c_enum_list : c_enum_list[k].comment = Absent
    THEN Raise("KeyError")
    ELSE Return(coap_generate_c_enum_content(c_head_comment,
             [k \in DOMAIN c_enum_list |->
                 IF c_enum_list[k].comment = Present(<<>>)
                 THEN [c_enum_list[k] EXCEPT !.comment = Absent] ELSE c_enum_list[k]],
             c_range_marker))

cbor_update_c_typedef_enum(document_content, c_typedef_name, c_head_comment, c_enum_list, c_range_marker) ==
    LET doc == IF Not(coap_get_content_of_typedef_enum(document_content, c_typedef_name))
               THEN document_content \o EmptyEnumBlock(c_typedef_name)
               ELSE document_content
        existing_enum_content == coap_get_content_of_typedef_enum(doc, c_typedef_name)
        merged == coap_override_enum_from_existing_typedef_enum(
                      FindAllTokens(existing_enum_content.str, 1), c_enum_list)
        c_enum_content == cbor_generate_c_enum_content(c_head_comment, merged, c_range_marker)
    IN  IF c_enum_content.raised THEN c_enum_content
        ELSE Return(coap_search_and_replace_c_typedef_enum(doc, c_typedef_name,
                                                           c_enum_content.value))

-----------------------------------------------------------------------------
(* Merge study: the merger and the renderer on bounded inputs *)

MaxMatches == 3

NameA == <<"A">>
NameB == <<"B">>
NameC == <<"C">>
MergeNames == {NameA, NameB, NameC}
MergeIds == {200, 404}

MatchLists ==
    UNION {[1..m -> [enum_name : MergeNames, enum_value : MergeIds]] : m \in 0..MaxMatches}

\* a freshly built table: every entry has a comment and no alias
FreshTables ==
    UNION {[ids -> [enum_name : MergeNames, comment : {Present(DescOK)},
                    depreciated_enum_name : {Absent}]] : ids \in SUBSET MergeIds}

InitMerge ==
    /\ mIn \in [existing : MatchLists, fresh : FreshTables, policy : BOOLEAN]
    /\ mOut = <<>> /\ mpc = "in"
    /\ file = Missing /\ pc = "off" /\ content = <<>>
    /\ started = [exists |-> FALSE, text |-> <<>>, synced |-> FALSE]
    /\ dupRows = FALSE /\ outcome = "none" /\ synced = FALSE
    /\ sIn = <<>> /\ sOut = <<>> /\ spc = "off"

RunUnchanged == UNCHANGED <<file, pc, content, started, dupRows, outcome, synced>>

\* iana_header_utils: extract, merge under the given policy, render
Merge ==
    /\ mpc = "in"
    /\ LET existing == CollectMatches(mIn.existing, 1, EmptyTable)
           table == MergeExisting(existing, mIn.fresh, mIn.policy)
       IN  mOut' = [table |-> table,
                    text |-> generate_c_enum_content(<<HEAD>>, table, http_range_marker)]
    /\ mpc' = "utils"
    /\ UNCHANGED <<mIn, sIn, sOut, spc>>
    /\ RunUnchanged

\* standalone scripts: extract, merge, render
MergeStandalone ==
    /\ mpc = "in"
    /\ LET table == coap_override_enum_from_existing_typedef_enum(mIn.existing, mIn.fresh)
       IN  mOut' = [table |-> table,
                    text |-> coap_generate_c_enum_content(<<HEAD>>, table, <<>>)]
    /\ mpc' = "standalone"
    /\ UNCHANGED <<mIn, sIn, sOut, spc>>
    /\ RunUnchanged

NextMerge == Merge \/ MergeStandalone

SpecMerge == InitMerge /\ [][NextMerge]_vars

-----------------------------------------------------------------------------
(* Patch study: one block synchronized twice with the same registry rows *)

MaxStudyRows == 1

StudyDescriptions == {DescOK, DescEq, Unassigned}

StudyPrefixes == { <<>>, <<WORD(<<"x">>)>>, <<TE, WORD(<<"f","w","d">>)>> }
StudySuffixes == { <<>>, <<WORD(<<"y">>)>> }
StudyEnumBlocks ==
    { <<>>,
      <<TE, LB, RB(http_status_code_t)>>,
      <<TE, LB, NL, RB(http_status_code_t)>>,
      <<TE, LB, NL, BIND(OLD, 200), NL, RB(http_status_code_t)>>,
      <<TE, LB, NL, BIND(OLD, 200), COMMA, BIND(NameA, 200), NL, RB(http_status_code_t)>> }
StudySections ==
    { <<>>,
      <<MS(http_field_name_name), ME(http_field_name_name)>>,
      <<MS(http_field_name_name), NL, ME(http_field_name_name)>>,
      <<MS(http_field_name_name), WORD(<<"z">>), ME(http_field_name_name)>>,
      <<MS(http_field_name_name), NL, MACRODEF(OLD, OLD), ME(http_field_name_name)>> }

StudyDocs ==
    {((p \o b) \o (<<NL>> \o m)) \o q :
        p \in StudyPrefixes, b \in StudyEnumBlocks, m \in StudySections, q \in StudySuffixes}

InitSync ==
    /\ sIn \in [doc : StudyDocs,
                rows : RowsOver(RunValues, StudyDescriptions, MaxStudyRows),
                fields : FieldRowsOver({FieldTE}, MaxFieldRows)]
    /\ sOut = <<>> /\ spc = "in"
    /\ file = Missing /\ pc = "off" /\ content = <<>>
    /\ started = [exists |-> FALSE, text |-> <<>>, synced |-> FALSE]
    /\ dupRows = FALSE /\ outcome = "none" /\ synced = FALSE
    /\ mIn = <<>> /\ mOut = <<>> /\ mpc = "off"

SyncEnumOnce ==
    /\ spc = "in"
    /\ sOut' = <<iana_http_status_codes_c_typedef_enum_update(sIn.doc, sIn.rows)>>
    /\ spc' = "enum1"
    /\ UNCHANGED <<sIn, mIn, mOut, mpc>>
    /\ RunUnchanged

SyncEnumAgain ==
    /\ spc = "enum1"
    /\ sOut' = Append(sOut, iana_http_status_codes_c_typedef_enum_update(sOut[1], sIn.rows))
    /\ spc' = "enum2"
    /\ UNCHANGED <<sIn, mIn, mOut, mpc>>
    /\ RunUnchanged

SyncMacroOnce ==
    /\ spc = "in"
    /\ sOut' = <<iana_http_field_names_c_const_macro_update(sIn.doc, sIn.fields)>>
    /\ spc' = "macro1"
    /\ UNCHANGED <<sIn, mIn, mOut, mpc>>
    /\ RunUnchanged

SyncMacroAgain ==
    /\ spc = "macro1"
    /\ sOut' = Append(sOut, iana_http_field_names_c_const_macro_update(sOut[1], sIn.fields))
    /\ spc' = "macro2"
    /\ UNCHANGED <<sIn, mIn, mOut, mpc>>
    /\ RunUnchanged

\* the extractor of iana_header_utils called on the document as it is
ExtractExisting ==
    /\ spc = "in"
    /\ sOut' = <<extract_enum_values_from_typedef_enum(sIn.doc,
                    get_content_of_typedef_enum(sIn.doc, http_status_code_t))>>
    /\ spc' = "extracted"
    /\ UNCHANGED <<sIn, mIn, mOut, mpc>>
    /\ RunUnchanged

\* the extractor of iana-coap-header.py called on the document as it is
ExtractCoapHeader ==
    /\ spc = "in"
    /\ sOut' = <<extract_enum_values_from_c_code(sIn.doc)>>
    /\ spc' = "coapExtracted"
    /\ UNCHANGED <<sIn, mIn, mOut, mpc>>
    /\ RunUnchanged

\* the extractor called on the block the synchronization has just written
ExtractGenerated ==
    /\ spc = "enum1"
    /\ sOut' = Append(sOut, extract_enum_values_from_typedef_enum(sOut[1],
                                 get_content_of_typedef_enum(sOut[1], http_status_code_t)))
    /\ spc' = "extractedGenerated"
    /\ UNCHANGED <<sIn, mIn, mOut, mpc>>
    /\ RunUnchanged

\* update_c_typedef_enum of the standalone CBOR generator on the artifact
SyncCborStandalone ==
    /\ spc = "in"
    /\ sOut' = <<cbor_update_c_typedef_enum(sIn.doc, http_status_code_t, <<HEAD>>,
                     iana_http_status_codes_parse_csv(sIn.rows, http_status_code_name),
                     http_range_marker)>>
    /\ spc' = "cborStandalone"
    /\ UNCHANGED <<sIn, mIn, mOut, mpc>>
    /\ RunUnchanged

NextSync ==
    \/ SyncEnumOnce \/ SyncEnumAgain \/ SyncMacroOnce \/ SyncMacroAgain
    \/ ExtractExisting \/ ExtractCoapHeader \/ ExtractGenerated
    \/ SyncCborStandalone

SpecSync == InitSync /\ [][NextSync]_vars

-----------------------------------------------------------------------------
(* Identifier synthesis of the CBOR tag registry (c_header_cbor.py), the
   screaming-snake-case output: tiny_cbor_style_override is False *)

StartsWith(s, p) == Len(s) >= Len(p) /\ SubSeq(s, 1, Len(p)) = p

\* str.strip()
StripSpace(s) ==
    LET keep == {i \in DOMAIN s : ~IsSpace(s[i])}
    IN  IF keep = {} THEN <<>>
        ELSE LET lo == CHOOSE i \in keep : \A j \in keep : i <= j
                 hi == CHOOSE i \in keep : \A j \in keep : j <= i
             IN  SubSeq(s, lo, hi)

\* s.find(sub): the leftmost index where sub starts, 0 if nowhere
Find(s, sub) ==
    LET at == {i \in 1..(Len(s) - Len(sub) + 1) : SubSeq(s, i, i + Len(sub) - 1) = sub}
    IN  IF at = {} THEN 0 ELSE CHOOSE i \in at : \A j \in at : i <= j

\* the last position of the line position p is on: '.' matches no newline
LineEnd(s, p) ==
    LET nls == {i \in p..Len(s) : s[i] = "\n"}
    IN  IF nls = {} THEN Len(s) ELSE (CHOOSE i \in nls : \A j \in nls : i <= j) - 1

PrefixContainsA == <<"A"," ","C","B","O","R"," ","t","a","g"," ","t","h","a","t"," ","c","o","n","t","a","i","n","s"," ","a"," ">>
PrefixContainsAn == <<"A"," ","C","B","O","R"," ","t","a","g"," ","t","h","a","t"," ","c","o","n","t","a","i","n","s"," ","a","n"," ">>
PrefixContainsEither == <<"A"," ","C","B","O","R"," ","t","a","g"," ","t","h","a","t"," ","c","o","n","t","a","i","n","s"," ","e","i","t","h","e","r"," ">>
DefinedIn == <<" ","d","e","f","i","n","e","d"," ","i","n"," ">>

\* re.sub(r'[.,].* defined in .*', '', s) from position p on
RECURSIVE CutDefinedIn(_, _)
CutDefinedIn(s, p) ==
    IF p > Len(s) THEN <<>>
    ELSE LET e == LineEnd(s, p)
         IN  IF /\ s[p] \in {".", ","}
                /\ \E i \in (p + 1)..(e - Len(DefinedIn) + 1) :
                      SubSeq(s, i, i + Len(DefinedIn) - 1) = DefinedIn
             THEN CutDefinedIn(s, e + 1)
             ELSE <<s[p]>> \o CutDefinedIn(s, p + 1)

\* re.sub(r'\(.*?\)', '', s) and re.sub(r'\[.*?\]', '', s) from position p on
RECURSIVE RemoveEnclosed(_, _, _, _)
RemoveEnclosed(s, p, open, close) ==
    IF p > Len(s) THEN <<>>
    ELSE LET closes == {k \in (p + 1)..LineEnd(s, p) : s[k] = close}
         IN  IF s[p] = open /\ closes # {}
             THEN RemoveEnclosed(s, (CHOOSE k \in closes : \A j \in closes : k <= j) + 1,
                                 open, close)
             ELSE <<s[p]>> \o RemoveEnclosed(s, p + 1, open, close)

\* the four re.sub that clear straggling brackets
BracketsToSpace(s) == [i \in DOMAIN s |-> IF s[i] \in {"(", ")", "[", "]"} THEN " " ELSE s[i]]

\* clean_semantics reads semantics, the variable of the enclosing function, for
\* the bracket test: semantics[0] raises IndexError on the empty str
clean_semantics(semantics, semantic_str) ==
    IF semantics = <<>> THEN Raise("IndexError")
    ELSE LET cut == CutDefinedIn(semantic_str, 1)
             inner == IF \/ semantics[1] = "[" /\ semantics[Len(semantics)] = "]"
                         \/ semantics[1] = "(" /\ semantics[Len(semantics)] = ")"
                      THEN SubSeq(cut, 2, Len(cut) - 1)
                      ELSE cut
             noParen == RemoveEnclosed(inner, 1, "(", ")")
             noBracket == RemoveEnclosed(noParen, 1, "[", "]")
         IN  Return(StripSpace(BracketsToSpace(noBracket)))

\* r'(?<!://)(?<!\w:)\s*:\s*(?!\w)' matches from position i
ColonSplitAt(s, i) ==
    /\ ~(i >= 4 /\ SubSeq(s, i - 3, i - 1) = <<":", "/", "/">>)
    /\ ~(i >= 3 /\ IsWordChar(s[i - 2]) /\ s[i - 1] = ":")
    /\ LET j == SkipSpace(s, i)
       IN  /\ j <= Len(s) /\ s[j] = ":"
           /\ (j = Len(s) \/ ~IsWordChar(s[j + 1]))

\* re.split(pattern, s)[0]
BeforeColon(s) ==
    LET at == {i \in DOMAIN s : ColonSplitAt(s, i)}
    IN  IF at = {} THEN s ELSE SubSeq(s, 1, (CHOOSE i \in at : \A j \in at : i <= j) - 1)

\* s.split(';', 1)[0]
BeforeSemicolon(s) ==
    LET i == Find(s, <<";">>) IN IF i = 0 THEN s ELSE SubSeq(s, 1, i - 1)

\* idx = s.find(". "); s[:idx] if found
BeforeSentenceEnd(s) ==
    LET i == Find(s, <<".", " ">>) IN IF i = 0 THEN s ELSE SubSeq(s, 1, i - 1)

\* re.sub(r'\_', ' ', s) and re.sub(r'\-', ' ', s)
UnderscoreDashToSpace(s) == [i \in DOMAIN s |-> IF s[i] \in {"_", "-"} THEN " " ELSE s[i]]

\* the maximal runs of characters of s, from p on, that satisfy / do not satisfy \s
RECURSIVE SplitWhitespace(_, _)
SplitWhitespace(s, p) ==
    LET b == SkipSpace(s, p)
    IN  IF b > Len(s) THEN <<>>
        ELSE LET ends == {e \in b..Len(s) : e = Len(s) \/ IsSpace(s[e + 1])}
                 e == CHOOSE x \in ends : \A y \in ends : x <= y
             IN  <<SubSeq(s, b, e)>> \o SplitWhitespace(s, e + 1)

\* word.replace('+', 'PLUS')
RECURSIVE ReplacePlus(_)
ReplacePlus(word) ==
    IF word = <<>> THEN <<>>
    ELSE (IF word[1] = "+" THEN <<"P", "L", "U", "S">> ELSE <<word[1]>>)
         \o ReplacePlus(SubSeq(word, 2, Len(word)))

\* re.sub(r'\W+', ' ', word).split()
NonWordToSpace(word) == [i \in DOMAIN word |-> IF IsWordChar(word[i]) THEN word[i] ELSE " "]

RECURSIVE Flatten(_)
Flatten(lists) == IF lists = <<>> THEN <<>> ELSE lists[1] \o Flatten(Tail(lists))

very_common_word_abbreviations ==
    { <<<<"s","t","a","n","d","a","r","d">>, <<"s","t","d">>>>,
      <<<<"i","d","e","n","t","i","f","i","e","r">>, <<"i","d">>>>,
      <<<<"m","e","s","s","a","g","e">>, <<"m","s","g">>>>,
      <<<<"c","o","n","f","i","g","u","r","a","t","i","o","n">>, <<"c","o","n","f","i","g">>>>,
      <<<<"r","e","f","e","r","e","n","c","e">>, <<"r","e","f">>>>,
      <<<<"r","e","f","e","r","e","n","c","e","d">>, <<"r","e","f">>>>,
      <<<<"p","r","e","v","i","o","u","s","l","y">>, <<"p","r","e","v">>>> }

word_abbreviations ==
    { <<<<"n","u","m","b","e","r">>, <<"n","u","m">>>>,
      <<<<"c","o","m","p","l","e","x">>, <<"c","p","l","x">>>>,
      <<<<"i","n","d","e","x">>, <<"i","d","x">>>>,
      <<<<"a","t","t","r","i","b","u","t","e">>, <<"a","t","t","r">>>>,
      <<<<"m","a","x","i","m","u","m">>, <<"m","a","x">>>>,
      <<<<"m","i","n","i","m","u","m">>, <<"m","i","n">>>>,
      <<<<"c","o","m","m","u","n","i","c","a","t","i","o","n">>, <<"c","o","m","m">>>>,
      <<<<"p","r","o","t","o","c","o","l">>, <<"p","r","o","t","o">>>>,
      <<<<"i","n","f","o","r","m","a","t","i","o","n">>, <<"i","n","f","o">>>>,
      <<<<"a","u","t","h","e","n","t","i","c","a","t","i","o","n">>, <<"a","u","t","h">>>>,
      <<<<"r","e","p","r","e","s","e","n","t","a","t","i","o","n">>, <<"r","e","p","r">>>>,
      <<<<"a","l","g","o","r","i","t","h","m">>, <<"a","l","g","o">>>>,
      <<<<"v","e","r","s","i","o","n">>, <<"v","e","r">>>>,
      <<<<"e","n","c","o","d","i","n","g">>, <<"e","n","c">>>>,
      <<<<"a","r","g","u","m","e","n","t","s">>, <<"a","r","g">>>>,
      <<<<"o","b","j","e","c","t">>, <<"o","b","j">>>>,
      <<<<"l","a","n","g","u","a","g","e">>, <<"l","a","n","g">>>>,
      <<<<"i","n","d","e","p","e","n","d","e","n","t">>, <<"i","n","d","e","p">>>>,
      <<<<"a","l","t","e","r","n","a","t","i","v","e","s">>, <<"a","l","t">>>>,
      <<<<"t","e","x","t">>, <<"t","x","t">>>>,
      <<<<"s","t","r","i","n","g">>, <<"s","t","r">>>>,
      <<<<"i","n","t","e","g","e","r">>, <<"i","n","t">>>>,
      <<<<"s","i","g","n","a","l">>, <<"s","i","g">>>>,
      <<<<"c","h","a","n","n","e","l">>, <<"c","h","n">>>>,
      <<<<"s","t","r","u","c","t","u","r","e">>, <<"s","t","r","c","t">>>>,
      <<<<"s","t","r","u","c","t","u","r","e","s">>, <<"s","t","r","c","t">>>>,
      <<<<"a","t","t","e","s","t","a","t","i","o","n">>, <<"a","t","t","e","s","t">>>>,
      <<<<"i","d","e","n","t","i","f","y">>, <<"i","d","e","n","t">>>>,
      <<<<"g","e","o","g","r","a","p","h","i","c">>, <<"g","e","o">>>>,
      <<<<"g","e","o","g","r","a","p","h","i","c","a","l">>, <<"g","e","o">>>>,
      <<<<"c","o","o","r","d","i","n","a","t","e">>, <<"c","o","o","r","d">>>>,
      <<<<"i","n","c","l","u","d","e","d">>, <<"i","n","c">>>>,
      <<<<"v","a","l","u","e">>, <<"v","a","l">>>>,
      <<<<"v","a","l","u","e","s">>, <<"v","a","l","s">>>>,
      <<<<"r","e","c","o","r","d">>, <<"r","e","c">>>>,
      <<<<"r","e","p","o","r","t">>, <<"r","p","t">>>>,
      <<<<"d","e","f","i","n","i","t","i","o","n">>, <<"d","e","f">>>>,
      <<<<"a","d","d","r","e","s","s","e","d">>, <<"a","d","d","r">>>>,
      <<<<"c","a","p","a","b","i","l","i","t","i","e","s">>, <<"c","a","p">>>>,
      <<<<"a","d","d","i","t","i","o","n","a","l">>, <<"a","d","d">>>>,
      <<<<"o","p","e","r","a","t","i","o","n">>, <<"o","p">>>>,
      <<<<"o","p","e","r","a","t","i","o","n","s">>, <<"o","p">>>>,
      <<<<"l","e","v","e","l">>, <<"l","v","l">>>>,
      <<<<"l","e","v","e","l","s">>, <<"l","v","l","s">>>>,
      <<<<"e","n","c","o","d","e">>, <<"e","n","c">>>>,
      <<<<"e","n","c","o","d","e","d">>, <<"e","n","c">>>>,
      <<<<"c","o","m","p","o","n","e","n","t">>, <<"c","o","m","p">>>>,
      <<<<"c","o","n","d","i","t","i","o","n">>, <<"c","o","n","d">>>>,
      <<<<"d","a","t","a","b","a","s","e">>, <<"d","b">>>>,
      <<<<"e","l","e","m","e","n","t">>, <<"e","l","e","m">>>>,
      <<<<"e","n","v","i","r","o","n","m","e","n","t">>, <<"e","n","v">>>>,
      <<<<"p","a","r","a","m","e","t","e","r">>, <<"p","a","r","a","m">>>>,
      <<<<"v","a","r","i","a","b","l","e">>, <<"v","a","r">>>>,
      <<<<"v","a","r","i","a","b","l","e","s">>, <<"v","a","r">>>>,
      <<<<"r","e","s","o","u","r","c","e">>, <<"r","e","s">>>>,
      <<<<"e","x","c","e","p","t","i","o","n">>, <<"e","x","c","p","t">>>>,
      <<<<"i","n","s","t","a","n","c","e">>, <<"i","n","s","t">>>>,
      <<<<"o","r","g","a","n","i","z","a","t","i","o","n">>, <<"o","r","g">>>>,
      <<<<"r","e","s","p","o","n","s","e">>, <<"r","e","s","p">>>>,
      <<<<"s","e","c","u","r","i","t","y">>, <<"s","e","c">>>> }

common_words == {<<"a","l","g","o","r","i","t","h","m">>, <<"a","n","d">>, <<"t","o">>, <<"a">>, <<"f","r","o","m">>, <<"t","h","e">>, <<"b","a","r","e">>}

\* abbreviations.get(term.lower(), term)
Abbreviated(abbreviations, term) ==
    IF \E e \in abbreviations : e[1] = Lower(term)
    THEN (CHOOSE e \in abbreviations : e[1] = Lower(term))[2]
    ELSE term

RECURSIVE TotalLen(_)
TotalLen(terms) == IF terms = <<>> THEN 0 ELSE Len(terms[1]) + TotalLen(Tail(terms))

LongDescription == 40

RECURSIVE JoinUnderscore(_)
JoinUnderscore(terms) ==
    IF terms = <<>> THEN <<>>
    ELSE IF Len(terms) = 1 THEN terms[1]
    ELSE (terms[1] \o <<"_">>) \o JoinUnderscore(Tail(terms))

\* the words of the input: split(), '+' spelled out, underscores stripped
NameWords(variable_name_list_input) ==
    LET split == SplitWhitespace(variable_name_list_input, 1)
    IN  [i \in DOMAIN split |-> StripUnderscore(ReplacePlus(split[i]))]

\* the terms the length is measured on: a leading 'A' dropped, the words cut at
\* non-word characters, the always-on abbreviations applied
VeryCommonTerms(words) ==
    LET rest == IF words[1] = <<"A">> THEN Tail(words) ELSE words
        processed == Flatten([i \in DOMAIN rest |->
                                 SplitWhitespace(NonWordToSpace(rest[i]), 1)])
    IN  [i \in DOMAIN processed |->
            Abbreviated(very_common_word_abbreviations, processed[i])]

\* variable_name_abbreviator with camel_case False:
\* variable_name_list[0] raises IndexError on the empty list
variable_name_abbreviator(variable_name_list_input) ==
    LET words == NameWords(variable_name_list_input)
    IN  IF words = <<>> THEN Raise("IndexError")
        ELSE LET common == VeryCommonTerms(words)
                 short == [i \in DOMAIN common |-> Abbreviated(word_abbreviations, common[i])]
                 terms == IF TotalLen(common) >= LongDescription
                          THEN SelectSeq(short, LAMBDA term : Lower(term) \notin common_words)
                          ELSE common
             IN  Return(Upper(JoinUnderscore(terms)))

\* re.sub(r'_{2,}', '_', s)
RECURSIVE CollapseUnderscores(_)
CollapseUnderscores(s) ==
    IF Len(s) < 2 THEN s
    ELSE IF s[1] = "_" /\ s[2] = "_" THEN CollapseUnderscores(Tail(s))
    ELSE <<s[1]>> \o CollapseUnderscores(Tail(s))

iana_cbor_tag_c_enum_name_generate(tag_value, semantics, typedef_enum_name) ==
    LET stripped ==
            IF StartsWith(semantics, PrefixContainsA)
            THEN SubSeq(semantics, Len(PrefixContainsA), Len(semantics))
            ELSE IF StartsWith(semantics, PrefixContainsAn)
            THEN SubSeq(semantics, Len(PrefixContainsAn) + 1, Len(semantics))
            ELSE IF StartsWith(semantics, PrefixContainsEither)
            THEN SubSeq(semantics, Len(PrefixContainsEither) + 1, Len(semantics))
            ELSE semantics
        cleaned == clean_semantics(stripped, stripped)
    IN  IF cleaned.raised THEN cleaned
        ELSE LET head == StripSpace(BeforeColon(cleaned.value))
                 clause == StripSpace(BeforeSemicolon(head))
                 spaced == UnderscoreDashToSpace(BeforeSentenceEnd(clause))
                 descriptive_terms == variable_name_abbreviator(spaced)
             IN  IF descriptive_terms.raised THEN descriptive_terms
                 ELSE LET enum_name ==
                              Upper(typedef_enum_name)
                              \o (IF descriptive_terms.value # <<>>
                                  THEN <<"_">> \o descriptive_terms.value ELSE <<>>)
                      IN  Return(Upper(StripUnderscore(CollapseUnderscores(enum_name))))

-----------------------------------------------------------------------------
(* Entry table builder of the CBOR tag registry (c_header_cbor.py) *)

\* 'sub in s'
Contains(s, sub) == Find(s, sub) # 0

Tag65535 == <<"6","5","5","3","5">>
Tag4294967295 == <<"4","2","9","4","9","6","7","2","9","5">>
Tag18446744073709551615 == <<"1","8","4","4","6","7","4","4","0","7","3","7","0","9","5","5","1","6","1","5">>
Tag107 == <<"1","0","7">>
Tag1070 == <<"1","0","7","0">>
Tag108 == <<"1","0","8">>
Tag527 == <<"5","2","7">>
Tag554 == <<"5","5","4">>
Tag555 == <<"5","5","5">>

Invalid16bit == <<"i","n","v","a","l","i","d"," ","1","6","b","i","t">>
Invalid32bit == <<"i","n","v","a","l","i","d"," ","3","2","b","i","t">>
Invalid64bit == <<"i","n","v","a","l","i","d"," ","6","4","b","i","t">>
SuitEnvelope == <<"S","U","I","T"," ","E","n","v","e","l","o","p","e">>
SuitManifest == <<"S","U","I","T"," ","M","a","n","i","f","e","s","t">>
Base16Lowercase == <<"E","x","p","e","c","t","e","d"," ","c","o","n","v","e","r","s","i","o","n"," ","t","o"," ","b","a","s","e","1","6"," ","e","n","c","o","d","i","n","g"," ","l","o","w","e","r","c","a","s","e">>
EitherXcorim == <<"A"," ","C","B","O","R"," ","t","a","g"," ","t","h","a","t"," ","c","o","n","t","a","i","n","s"," ","e","i","t","h","e","r"," ","x","c","o","r","i","m","m","a","p",","," ","o","r"," ","s","i","g","n","e","d","-","x","c","o","r","i","m",".">>

\* the override and ban table: every test is 'digits in cbor_tag', a later
\* test overrides an earlier one, the last one bans the row (None)
iana_cbor_tag_override_semantic(cbor_tag, semantics) ==
    LET s1 == IF Contains(cbor_tag, Tag65535) THEN Invalid16bit ELSE semantics
        s2 == IF Contains(cbor_tag, Tag4294967295) THEN Invalid32bit ELSE s1
        s3 == IF Contains(cbor_tag, Tag18446744073709551615) THEN Invalid64bit ELSE s2
        s4 == IF Contains(cbor_tag, Tag107) THEN SuitEnvelope ELSE s3
        s5 == IF Contains(cbor_tag, Tag1070) THEN SuitManifest ELSE s4
        s6 == IF Contains(cbor_tag, Tag108) THEN Base16Lowercase ELSE s5
        s7 == IF Contains(cbor_tag, Tag527) THEN EitherXcorim ELSE s6
    IN  IF Contains(cbor_tag, Tag554) \/ Contains(cbor_tag, Tag555) THEN None ELSE Some(s7)

Earmarked == <<"e","a","r","m","a","r","k","e","d">>

\* the 'continue' filters of the parse loop that precede the override
TagRowRetained(row) ==
    /\ Lower(row.Tag) # <<"t", "a", "g">>
    /\ row.Tag # <<>>
    /\ ~Contains(Lower(row.DataItem), Unassigned)
    /\ ~Contains(Lower(row.Semantics), Reserved)
    /\ ~Contains(Lower(row.Semantics), Earmarked)
    /\ ~HasChar(row.Tag, "-")

\* the body of the parse loop for one row: the row is skipped by a filter,
\* banned by the override table, makes the synthesizer raise, or gives an entry
TagRowOutcome(row, typedef_enum_name) ==
    LET none == [kind |-> "skipped", error |-> "", enum_name |-> <<>>, comment |-> <<>>]
    IN  IF ~TagRowRetained(row) THEN none
        ELSE LET semantics_updated_for_enum_name ==
                     iana_cbor_tag_override_semantic(row.Tag, row.Semantics)
             IN  IF semantics_updated_for_enum_name.isNone
                 THEN [none EXCEPT !.kind = "banned"]
                 ELSE LET enum_name == iana_cbor_tag_c_enum_name_generate(
                                           row.Tag, semantics_updated_for_enum_name.str,
                                           typedef_enum_name)
                      IN  IF enum_name.raised
                          THEN [none EXCEPT !.kind = "raised", !.error = enum_name.error]
                          ELSE [kind |-> "entry", error |-> "",
                                enum_name |-> enum_name.value,
                                comment |-> JoinComment(row.Semantics, row.Reference)]

\* int(cbor_tag) as a dict key: the digits without leading zeros
RECURSIVE TagKey(_)
TagKey(cbor_tag) ==
    IF Len(cbor_tag) > 1 /\ cbor_tag[1] = "0" THEN TagKey(Tail(cbor_tag)) ELSE cbor_tag

\* the row's outcome is bound through a singleton set, so that the name of the
\* row is synthesized once
RECURSIVE ParseTagRowsFrom(_, _, _, _)
ParseTagRowsFrom(rows, i, c_enum_list, typedef_enum_name) ==
    IF i > Len(rows) THEN Return(c_enum_list)
    ELSE CHOOSE parsed \in
            { IF row.kind = "raised" THEN Raise(row.error)
              ELSE IF row.kind # "entry"
              THEN ParseTagRowsFrom(rows, i + 1, c_enum_list, typedef_enum_name)
              ELSE LET key == TagKey(rows[i].Tag)
                       entry == [enum_name |-> row.enum_name,
                                 comment |-> Present(row.comment),
                                 depreciated_enum_name |-> Absent]
                       next == [k \in DOMAIN c_enum_list \cup {key} |->
                                   IF k = key THEN entry ELSE c_enum_list[k]]
                   IN  ParseTagRowsFrom(rows, i + 1, next, typedef_enum_name)
              : row \in {TagRowOutcome(rows[i], typedef_enum_name)} } : TRUE

iana_cbor_tag_parse_csv(csv_content, typedef_enum_name) ==
    ParseTagRowsFrom(csv_content, 1, EmptyTable, typedef_enum_name)

-----------------------------------------------------------------------------
(* Synthesis study: the identifier synthesizers on bounded description texts *)

MaxDescLen == 3

DescChars == {"A", "x", "3", " ", "(", ")", "-", ".", ":"}

\* registry descriptions long enough for the lossy abbreviation
LongDescriptions ==
    { <<"M","u","l","t","i","-","d","i","m","e","n","s","i","o","n","a","l"," ","a","r","r","a","y",","," ","r","o","w","-","m","a","j","o","r"," ","o","r","d","e","r">>,
      <<"T","h","e"," ","w","e","a","k"," ","r","e","f","e","r","e","n","c","e"," ","i","d","e","n","t","i","f","i","e","r"," ","f","o","r"," ","p","r","e","v","i","o","u","s","l","y"," ","r","e","f","e","r","e","n","c","e","d"," ","m","e","s","s","a","g","e">> }

\* descriptions wholly wrapped in one bracket pair, with and without a
\* 'defined in' clause inside the brackets
WrappedDescriptions ==
    { <<"[","a","b","]">>,
      <<"(","a","b",")">>,
      <<"[","a","b",","," ","c"," ","d","e","f","i","n","e","d"," ","i","n"," ","d","]">>,
      <<"(","a","b","."," ","c"," ","d","e","f","i","n","e","d"," ","i","n"," ","d",")">>,
      <<"[","a"," ","b",","," ","a","s"," ","d","e","f","i","n","e","d"," ","i","n"," ","c","]">> }

\* descriptions of three words whose summed length is just below, at and
\* just above the length that starts the lossy abbreviation: a word of the
\* secondary dictionary or a stop word or neither, twice, and a filler
ThresholdDescriptions ==
    { (w1 \o <<" ">>) \o ((w2 \o <<" ">>) \o [i \in 1..n |-> "x"]) :
        w1 \in {<<"t","h","e">>, <<"n","u","m","b","e","r">>, <<"a","l","g","o","r","i","t","h","m">>, <<"m","e","s","s","a","g","e">>, <<"x","y">>},
        w2 \in {<<"a","n","d">>, <<"i","n","d","e","x">>, <<"z","z">>},
        n \in 25..36 }

Descriptions ==
    ((UNION {[1..n -> DescChars] : n \in 0..MaxDescLen} \cup LongDescriptions)
        \cup WrappedDescriptions) \cup ThresholdDescriptions

cbor_tag_name == <<"c", "b", "o", "r", "_", "t", "a", "g">>

InitSynth ==
    /\ sIn \in Descriptions
    /\ sOut = <<>> /\ spc = "toName"
    /\ mIn = <<>> /\ mOut = <<>> /\ mpc = "off"
    /\ file = Missing /\ pc = "off" /\ content = <<>>
    /\ started = [exists |-> FALSE, text |-> <<>>, synced |-> FALSE]
    /\ dupRows = FALSE /\ outcome = "none" /\ synced = FALSE

SynthStatusCode ==
    /\ spc = "toName"
    /\ sOut' = Return(iana_http_status_codes_c_enum_name_generate(200, sIn, http_status_code_name))
    /\ spc' = "statusCode"
    /\ UNCHANGED <<sIn, mIn, mOut, mpc>>
    /\ RunUnchanged

SynthFieldName ==
    /\ spc = "toName"
    /\ sOut' = Return(iana_http_field_names_c_macro_name_generate(sIn, http_field_name_name))
    /\ spc' = "fieldName"
    /\ UNCHANGED <<sIn, mIn, mOut, mpc>>
    /\ RunUnchanged

SynthCborTag ==
    /\ spc = "toName"
    /\ sOut' = iana_cbor_tag_c_enum_name_generate(1, sIn, cbor_tag_name)
    /\ spc' = "cborTag"
    /\ UNCHANGED <<sIn, mIn, mOut, mpc>>
    /\ RunUnchanged

\* the cleaning step of the CBOR tag synthesizer alone
CleanSemantics ==
    /\ spc = "toName"
    /\ sOut' = clean_semantics(sIn, sIn)
    /\ spc' = "cleaned"
    /\ UNCHANGED <<sIn, mIn, mOut, mpc>>
    /\ RunUnchanged

\* the abbreviation step of the CBOR tag synthesizer alone
Abbreviate ==
    /\ spc = "toName"
    /\ sOut' = variable_name_abbreviator(sIn)
    /\ spc' = "abbreviated"
    /\ UNCHANGED <<sIn, mIn, mOut, mpc>>
    /\ RunUnchanged

NextSynth ==
    \/ SynthStatusCode \/ SynthFieldName \/ SynthCborTag
    \/ CleanSemantics \/ Abbreviate

SpecSynth == InitSynth /\ [][NextSynth]_vars

Synthesized == spc \in {"statusCode", "fieldName", "cborTag"}

\* the namespace prefix of the synthesizer that ran
SynthPrefix ==
    IF spc = "statusCode" THEN Upper(http_status_code_name)
    ELSE IF spc = "fieldName" THEN Upper(http_field_name_name)
    ELSE Upper(cbor_tag_name)

\* a description with no token: empty, only punctuation and spaces, only one
\* bracketed aside, or only the word 'A'
NoTokens(d) ==
    \/ \A i \in DOMAIN d : ~IsAlnum(d[i])
    \/ /\ Len(d) >= 2 /\ d[1] = "(" /\ d[Len(d)] = ")"
       /\ \A i \in 2..(Len(d) - 1) : d[i] \notin {"(", ")"}
    \/ d = <<"A">>

\* C18: a synthesizer returns an identifier for every description and never
\* raises; for a description that is empty or reduces to no tokens (only
\* punctuation, only a bracketed aside, only the word 'A') the identifier is
\* the namespace prefix alone, never the empty string
C18_NeverRaisesPrefixAlone ==
    Synthesized =>
        /\ ~sOut.raised
        /\ sOut.value # <<>>
        /\ NoTokens(sIn) => sOut.value = SynthPrefix

\* the shape of a snake-case identifier
ValidSnakeName(name) ==
    /\ name # <<>>
    /\ \A i \in DOMAIN name : IsAlnum(name[i]) \/ name[i] = "_"
    /\ ~IsDigit(name[1])
    /\ name[1] # "_" /\ name[Len(name)] # "_"
    /\ \A i \in 1..(Len(name) - 1) : ~(name[i] = "_" /\ name[i + 1] = "_")

\* C19: every primary name a snake-case synthesizer returns has only letters,
\* digits and underscores, no leading digit, no two consecutive underscores and
\* no leading or trailing underscore, for every description
C19_NamesAreCleanIdentifiers ==
    (Synthesized /\ ~sOut.raised) => ValidSnakeName(sOut.value)

-----------------------------------------------------------------------------
(* Fetch study: read_or_download_csv on every outcome of its two requests,
   with and without a cache file *)

\* the cache file: absent, or a text with a modification time
NoCache == [exists |-> FALSE, text |-> <<>>, mtime |-> 0]
\* the registry files end their lines with a carriage return and a line feed
CRLF == <<"\r", "\n">>
CacheFiles ==
    {NoCache} \cup [exists : {TRUE}, text : {<<"a">>, <<"b">>, <<"a">> \o CRLF}, mtime : {1, 2}]

\* what requests.head and requests.get can do: raise, or return a response.
\* ConnectTimeout derives from ConnectionError, ReadTimeout from Timeout only
RequestErrors == {"ConnectionError", "ConnectTimeout", "ReadTimeout"}
Failing == [error : RequestErrors, status_code : {0}, text : {<<>>},
            has_last_modified : {FALSE}, last_modified : {0}]
HeadOutcomes ==
    Failing \cup [error : {""}, status_code : {200}, text : {<<>>},
                  has_last_modified : {TRUE}, last_modified : {1, 2, 3}]
            \cup [error : {""}, status_code : {200}, text : {<<>>},
                  has_last_modified : {FALSE}, last_modified : {0}]
GetOutcomes ==
    Failing \cup [error : {""}, status_code : {200},
                  text : {<<"b">>, <<"c">>, <<"c">> \o CRLF},
                  has_last_modified : {FALSE}, last_modified : {0}]
            \cup [error : {""}, status_code : {404, 500}, text : {<<>>},
                  has_last_modified : {FALSE}, last_modified : {0}]

\* the zones the script runs in, as hours east of UTC
UtcOffsets == {0 - 1, 0, 1}

\* time.mktime(email.utils.parsedate_to_datetime(h).timetuple()): the GMT wall
\* clock time of the header, read as a time of the local zone
remote_timestamp(remote_last_modified, utc_offset) == remote_last_modified - utc_offset

\* a call's result together with the cache file it leaves
Fetched(result, cache) == [result |-> result, cache |-> cache]

\* download_csv: the response of the GET, written to the cache on status 200
download_csv(get, cache) ==
    IF get.error # "" THEN Fetched(Raise(get.error), cache)
    ELSE IF get.status_code # 200 THEN Fetched(Raise("Exception"), cache)
    ELSE Fetched(Return(get.text),
                 [exists |-> TRUE, text |-> get.text, mtime |-> cache.mtime + 1])

\* file.read() of a file opened in text mode: "\r\n" and "\r" are read as "\n"
RECURSIVE UniversalNewlines(_)
UniversalNewlines(text) ==
    IF text = <<>> THEN <<>>
    ELSE IF Len(text) >= 2 /\ text[1] = "\r" /\ text[2] = "\n"
    THEN <<"\n">> \o UniversalNewlines(SubSeq(text, 3, Len(text)))
    ELSE IF text[1] = "\r" THEN <<"\n">> \o UniversalNewlines(Tail(text))
    ELSE <<text[1]>> \o UniversalNewlines(Tail(text))

read_cache_csv(cache) == Fetched(Return(UniversalNewlines(cache.text)), cache)

\* except (requests.exceptions.HTTPError, requests.exceptions.ConnectionError)
CaughtAsNetworkError(error) == error \in {"HTTPError", "ConnectionError", "ConnectTimeout"}

read_or_download_csv(head, get, cache, utc_offset) ==
    LET tried ==
            IF ~cache.exists THEN download_csv(get, cache)
            ELSE IF head.error # "" THEN Fetched(Raise(head.error), cache)
            ELSE IF ~head.has_last_modified THEN read_cache_csv(cache)
            ELSE IF remote_timestamp(head.last_modified, utc_offset) <= cache.mtime
                 THEN read_cache_csv(cache)
            ELSE download_csv(get, cache)
    IN  IF ~tried.result.raised THEN tried
        ELSE IF CaughtAsNetworkError(tried.result.error)
        THEN IF cache.exists THEN read_cache_csv(cache)
             ELSE Fetched(Raise("Exception"), cache)
        ELSE Fetched(Raise("Exception"), cache)

\* read_or_download_csv of the standalone CoAP script: no handler, and a
\* response without last-modified leads to the download
coap_read_or_download_csv(head, get, cache, utc_offset) ==
    IF ~cache.exists THEN download_csv(get, cache)
    ELSE IF head.error # "" THEN Fetched(Raise(head.error), cache)
    ELSE IF /\ head.has_last_modified
            /\ remote_timestamp(head.last_modified, utc_offset) <= cache.mtime
    THEN read_cache_csv(cache)
    ELSE download_csv(get, cache)

InitFetch ==
    /\ mIn \in [head : HeadOutcomes, get : GetOutcomes, cache : CacheFiles,
                utc_offset : UtcOffsets]
    /\ mOut = <<>> /\ mpc = "toFetch"
    /\ file = Missing /\ pc = "off" /\ content = <<>>
    /\ started = [exists |-> FALSE, text |-> <<>>, synced |-> FALSE]
    /\ dupRows = FALSE /\ outcome = "none" /\ synced = FALSE
    /\ sIn = <<>> /\ sOut = <<>> /\ spc = "off"

Fetch ==
    /\ mpc = "toFetch"
    /\ mOut' = read_or_download_csv(mIn.head, mIn.get, mIn.cache, mIn.utc_offset)
    /\ mpc' = "fetched"
    /\ UNCHANGED <<mIn, sIn, sOut, spc>>
    /\ RunUnchanged

FetchStandalone ==
    /\ mpc = "toFetch"
    /\ mOut' = coap_read_or_download_csv(mIn.head, mIn.get, mIn.cache, mIn.utc_offset)
    /\ mpc' = "fetchedStandalone"
    /\ UNCHANGED <<mIn, sIn, sOut, spc>>
    /\ RunUnchanged

NextFetch == Fetch \/ FetchStandalone

SpecFetch == InitFetch /\ [][NextFetch]_vars

\* a request fails: it raises, or it is the download and answers other than 200
HeadFails == mIn.head.error # ""
GetFails == mIn.get.error # "" \/ mIn.get.status_code # 200

\* the call that ran made a request, and a request it made failed
RemoteRequestFailed ==
    \/ ~mIn.cache.exists /\ GetFails
    \/ mIn.cache.exists /\ HeadFails
    \/ /\ mIn.cache.exists /\ ~HeadFails /\ GetFails
       /\ \/ /\ mIn.head.has_last_modified
             /\ remote_timestamp(mIn.head.last_modified, mIn.utc_offset) > mIn.cache.mtime
          \/ mpc = "fetchedStandalone" /\ ~mIn.head.has_last_modified

\* C20: when a remote request of read_or_download_csv fails (connection error,
\* timeout, non-200 answer to the download), the call returns the cached
\* content if a cache file exists and fails only if none exists
C20_FailureFallsBackToCache ==
    (mpc \in {"fetched", "fetchedStandalone"} /\ RemoteRequestFailed) =>
        IF mIn.cache.exists
        THEN mOut.result = Return(UniversalNewlines(mIn.cache.text))
        ELSE mOut.result.raised

-----------------------------------------------------------------------------
(* Tag row study: the override and ban table on single registry rows *)

\* the ids the table names
NamedTags ==
    {Tag65535, Tag4294967295, Tag18446744073709551615, Tag107, Tag1070, Tag108,
     Tag527, Tag554, Tag555}

\* ids the table does not name
OtherTags == {<<"1">>, <<"2","4">>, <<"1","0","7","1">>, <<"2","1","0","8">>, <<"5","5","4","0">>, <<"1","6","5","5","3","5">>}

SemAlpha == <<"a","l","p","h","a">>
SemBeta == <<"b","e","t","a"," ","g","a","m","m","a">>
TagSemantics == {SemAlpha, SemBeta, <<"E","a","r","m","a","r","k","e","d"," ","f","o","r"," ","x">>}
TagDataItems == {<<"a","r","r","a","y">>, <<"U","n","a","s","s","i","g","n","e","d">>}

TagRows(tags, semantics) ==
    [Tag : tags, DataItem : TagDataItems, Semantics : semantics, Reference : {Reference}]

InitTagRow ==
    /\ sIn \in TagRows(NamedTags \cup OtherTags, TagSemantics)
    /\ sOut = <<>> /\ spc = "row"
    /\ mIn = <<>> /\ mOut = <<>> /\ mpc = "off"
    /\ file = Missing /\ pc = "off" /\ content = <<>>
    /\ started = [exists |-> FALSE, text |-> <<>>, synced |-> FALSE]
    /\ dupRows = FALSE /\ outcome = "none" /\ synced = FALSE

ParseTagRow ==
    /\ spc = "row"
    /\ sOut' = TagRowOutcome(sIn, cbor_tag_name)
    /\ spc' = "rowParsed"
    /\ UNCHANGED <<sIn, mIn, mOut, mpc>>
    /\ RunUnchanged

NextTagRow == ParseTagRow

SpecTagRow == InitTagRow /\ [][NextTagRow]_vars

\* what the row gives when no table entry applies to it
NamedFromOwnSemantics(row) ==
    LET enum_name == iana_cbor_tag_c_enum_name_generate(row.Tag, row.Semantics, cbor_tag_name)
    IN  [kind |-> "entry", error |-> "", enum_name |-> enum_name.value,
         comment |-> JoinComment(row.Semantics, row.Reference)]

NamedFrom(semantics) ==
    iana_cbor_tag_c_enum_name_generate(<<>>, semantics, cbor_tag_name).value

\* C23: the override/ban table changes the outcome only for the tag ids it
\* names: tags 554 and 555 give no entry, tag 1070 is named from 'SUIT
\* Manifest' and tag 107 from 'SUIT Envelope', and a tag id outside the list is
\* named from its own registry semantics and never banned
C23_OverrideOnlyNamedTags ==
    (spc = "rowParsed" /\ TagRowRetained(sIn)) =>
        /\ sIn.Tag \in {Tag554, Tag555} => sOut.kind = "banned"
        /\ sIn.Tag = Tag1070 => sOut.enum_name = NamedFrom(SuitManifest)
        /\ sIn.Tag = Tag107 => sOut.enum_name = NamedFrom(SuitEnvelope)
        /\ sIn.Tag \notin NamedTags => sOut = NamedFromOwnSemantics(sIn)

-----------------------------------------------------------------------------
(* Tag table study: iana_cbor_tag_c_typedef_enum_update on bounded registries,
   and the run of iana_cbor_c_header_update *)

MaxTagRows == 2

cbor_tag_t == cbor_tag_name \o <<"_", "t">>

\* sys.exit(status)
Exit(status) == [raised |-> TRUE, error |-> "SystemExit", value |-> status]

\* a table that is never found to hold a name twice
NoDuplicateEnumNames(c_enum_list) == {}

\* the names that more than one entry of the fresh table carries
DuplicateEnumNames(c_enum_list) ==
    {c_enum_list[k].enum_name : k \in {x \in DOMAIN c_enum_list :
        \E y \in DOMAIN c_enum_list : y # x /\ c_enum_list[y].enum_name = c_enum_list[x].enum_name}}

\* the part of iana_cbor_tag_c_typedef_enum_update after the fetch. The call
\* of utils.update_c_typedef_enum passes spacing_string and int_suffix, which
\* that function does not accept: the call raises TypeError before its body runs
iana_cbor_tag_c_typedef_enum_update(header_file_content, csv_content) ==
    CHOOSE result \in
        { IF c_enum_list.raised THEN c_enum_list
          ELSE IF DuplicateEnumNames(c_enum_list.value) # {} THEN Exit(1)
          ELSE Raise("TypeError")
          : c_enum_list \in {iana_cbor_tag_parse_csv(csv_content, cbor_tag_name)} } : TRUE

\* iana_cbor_simple_values_c_typedef_enum_update: the fetch raises, or the call
\* of utils.update_c_typedef_enum with spacing_string raises TypeError
SimpleValuesErrors == {"Exception", "TypeError"}

default_cbor_header_c ==
    <<NL, WORD(<<"/","/","I","A","N","A">>), NL, WORD(<<"/","/","S","o","u","r","c","e">>), NL, NL>>

\* artifacts with and without a tag block; the block binds, under an id the
\* registry does not list, the name the synthesizer gives 'alpha'
TagDocs ==
    { <<WORD(<<"x">>)>>,
      <<TE, LB, NL, BIND(NamedFrom(SemAlpha), 9), NL, RB(cbor_tag_t)>> }

TagTableRows ==
    [Tag : {<<"1">>, <<"2">>}, DataItem : {<<"a","r","r","a","y">>},
     Semantics : {SemAlpha, SemBeta, <<>>}, Reference : {Reference}]
    \cup [Tag : {Tag554}, DataItem : {<<"a","r","r","a","y">>},
          Semantics : {SemAlpha}, Reference : {Reference}]

InitTags ==
    /\ sIn \in [doc : TagDocs, rows : UNION {[1..m -> TagTableRows] : m \in 0..MaxTagRows}]
    /\ sOut = <<>> /\ spc = "in"
    /\ file \in {Missing, OnDisk(sIn.doc)}
    /\ pc = "idle" /\ content = <<>>
    /\ started = [exists |-> FALSE, text |-> <<>>, synced |-> FALSE]
    /\ dupRows = FALSE /\ outcome = "none" /\ synced = FALSE
    /\ mIn = <<>> /\ mOut = <<>> /\ mpc = "off"

\* iana_cbor_tag_c_typedef_enum_update called on the artifact, the fetch
\* returning the rows
TagUpdate ==
    /\ spc = "in"
    /\ sOut' = iana_cbor_tag_c_typedef_enum_update(sIn.doc, sIn.rows)
    /\ spc' = "tagUpdated"
    /\ UNCHANGED <<sIn, mIn, mOut, mpc>>
    /\ RunUnchanged

\* iana_cbor_c_header_update: the file is created if missing and read, the
\* simple-value block raises, so the tag block and the final write are not reached
CborHeaderUpdate ==
    /\ pc = "idle"
    /\ started' = [exists |-> file.exists, text |-> file.text, synced |-> synced]
    /\ file' = (IF ~file.exists THEN OnDisk(default_cbor_header_c) ELSE file)
    /\ content' = file'.text
    /\ \E error \in SimpleValuesErrors : outcome' = error
    /\ pc' = "done"
    /\ UNCHANGED <<dupRows, synced>>
    /\ StudiesUnchanged

NextTags == TagUpdate \/ CborHeaderUpdate

SpecTags == InitTags /\ [][NextTags]_vars

-----------------------------------------------------------------------------
(* Render study: the renderer on bounded tables and range-marker lists *)

MaxMarkers == 3

RenderIds == {5, 100, 300}

\* merged tables: an entry has a comment or none, an alias or none
RenderTables ==
    UNION {[ids -> [enum_name : {NameA}, comment : {Absent, Present(DescOK)},
                    depreciated_enum_name : {Absent, Present(NameB)}]]
           : ids \in SUBSET RenderIds}

Markers == { [start |-> 0, end |-> 19], [start |-> 32, end |-> 255],
             [start |-> 256, end |-> 999] }

\* range-marker lists, ascending or not
MarkerLists == UNION {[1..m -> Markers] : m \in 0..MaxMarkers}

InitRender ==
    /\ mIn \in [table : RenderTables, markers : MarkerLists]
    /\ mOut = <<>> /\ mpc = "toRender"
    /\ file = Missing /\ pc = "off" /\ content = <<>>
    /\ started = [exists |-> FALSE, text |-> <<>>, synced |-> FALSE]
    /\ dupRows = FALSE /\ outcome = "none" /\ synced = FALSE
    /\ sIn = <<>> /\ sOut = <<>> /\ spc = "off"

Render ==
    /\ mpc = "toRender"
    /\ mOut' = generate_c_enum_content(<<HEAD>>, mIn.table, mIn.markers)
    /\ mpc' = "rendered"
    /\ UNCHANGED <<mIn, sIn, sOut, spc>>
    /\ RunUnchanged

\* the renderer of the standalone scripts on the same inputs
RenderStandalone ==
    /\ mpc = "toRender"
    /\ mOut' = coap_generate_c_enum_content(<<HEAD>>, mIn.table, mIn.markers)
    /\ mpc' = "renderedStandalone"
    /\ UNCHANGED <<mIn, sIn, sOut, spc>>
    /\ RunUnchanged

NextRender == Render \/ RenderStandalone

SpecRender == InitRender /\ [][NextRender]_vars

-----------------------------------------------------------------------------
(* Pass study: two enum blocks of one artifact synchronized one after the other *)

\* the name of the other block: it has http_status_code_t as a substring
other_t == <<"x", "_">> \o http_status_code_t

PassBlocksA ==
    { <<TE, LB, RB(other_t)>>,
      <<TE, LB, NL, BIND(NameA, 200), NL, RB(other_t)>>,
      <<TE, LB, NL, BIND(NameA, 404), COMMA, BIND(NameB, 200), NL, RB(other_t)>> }
PassBlocksB ==
    { <<>>,
      <<TE, LB, RB(http_status_code_t)>>,
      <<TE, LB, NL, BIND(OLD, 200), NL, RB(http_status_code_t)>> }

PassDocs ==
    {((<<WORD(<<"x">>)>> \o a) \o (<<NL>> \o b)) \o <<WORD(<<"y">>)>> :
        a \in PassBlocksA, b \in PassBlocksB}
    \cup {((<<WORD(<<"x">>)>> \o b) \o (<<NL>> \o a)) \o <<WORD(<<"y">>)>> :
        a \in PassBlocksA, b \in PassBlocksB}

\* the registry rows of the other block
PassRowsA == { <<>>, <<[Value |-> Str404, Description |-> DescGone, Reference |-> Reference]>> }

InitPass ==
    /\ sIn \in [doc : PassDocs, rows : RowsOver(RunValues, RunDescriptions, MaxStudyRows),
                rowsA : PassRowsA]
    /\ sOut = <<>> /\ spc = "pass"
    /\ file = Missing /\ pc = "off" /\ content = <<>>
    /\ started = [exists |-> FALSE, text |-> <<>>, synced |-> FALSE]
    /\ dupRows = FALSE /\ outcome = "none" /\ synced = FALSE
    /\ mIn = <<>> /\ mOut = <<>> /\ mpc = "off"

PassTableA == iana_http_status_codes_parse_csv(sIn.rowsA, http_status_code_name)
PassTableB == iana_http_status_codes_parse_csv(sIn.rows, http_status_code_name)

\* iana_header_utils: the first block of the pass, then the second on its output
PassUtilsA ==
    /\ spc = "pass"
    /\ sOut' = <<update_c_typedef_enum(sIn.doc, other_t, other_t, <<HEAD>>, PassTableA, <<>>)>>
    /\ spc' = "utilsA"
    /\ UNCHANGED <<sIn, mIn, mOut, mpc>>
    /\ RunUnchanged

PassUtilsB ==
    /\ spc = "utilsA"
    /\ sOut' = Append(sOut, update_c_typedef_enum(sOut[1], http_status_code_t, http_status_code_t,
                                                  <<HEAD>>, PassTableB, http_range_marker))
    /\ spc' = "utilsB"
    /\ UNCHANGED <<sIn, mIn, mOut, mpc>>
    /\ RunUnchanged

\* standalone CoAP script: the same pass with its own patcher
PassCoapA ==
    /\ spc = "pass"
    /\ sOut' = <<coap_update_c_typedef_enum(sIn.doc, other_t, <<HEAD>>, PassTableA, <<>>)>>
    /\ spc' = "coapA"
    /\ UNCHANGED <<sIn, mIn, mOut, mpc>>
    /\ RunUnchanged

PassCoapB ==
    /\ spc = "coapA"
    /\ sOut' = Append(sOut, coap_update_c_typedef_enum(sOut[1], http_status_code_t, <<HEAD>>,
                                                       PassTableB, http_range_marker))
    /\ spc' = "coapB"
    /\ UNCHANGED <<sIn, mIn, mOut, mpc>>
    /\ RunUnchanged

NextPass == PassUtilsA \/ PassUtilsB \/ PassCoapA \/ PassCoapB

SpecPass == InitPass /\ [][NextPass]_vars

-----------------------------------------------------------------------------
(* Properties of the header update run *)

\* the <<name, id>> pairs bound by the entries of the status-code block of a text
Bound(text) ==
    LET body == get_content_of_typedef_enum(text, http_status_code_t)
    IN  IF body.isNone THEN {}
        ELSE {<<body.str[i].s, body.str[i].v>> :
                 i \in {j \in DOMAIN body.str : body.str[j].k = "bind"}}

StartedFile == [exists |-> started.exists, text |-> started.text]

\* C1: under the default policy every identifier bound to an id in the block
\* after some run is still bound to that id after every later run.  Failed
\* runs leave the block alone, so it is enough that each completed run that
\* started from a synchronized file keeps every binding it found.
C1_EveryBoundNameStaysBound ==
    (pc = "idle" /\ outcome = "ok" /\ started.synced)
        => Bound(started.text) \subseteq Bound(file.text)

\* C2: no block emitted by a merge binds one identifier to two different ids.
C2_NoNameBoundToTwoIds ==
    (pc = "idle" /\ outcome = "ok")
        => \A a, b \in Bound(file.text) : a[1] = b[1] => a[2] = b[2]

\* C5 as stated: after a run the file holds the result of all block
\* synchronizations or is exactly what it was before the run, absent included.
C5_AllOrNothing ==
    (pc = "idle" /\ outcome # "none")
        => \/ outcome = "ok" /\ file = OnDisk(content)
           \/ file = StartedFile

\* what the run does keep: a completed run leaves the document with both blocks
\* synchronized; at every other point the file is as it was before the run,
\* except that a file that was absent holds the default header text.
FailedRunLeavesStartOrDefault ==
    /\ (pc = "idle" /\ outcome = "ok")
          => /\ file = OnDisk(content)
             /\ ~get_content_of_typedef_enum(file.text, http_status_code_t).isNone
             /\ ~get_content_of_const_macro(file.text, http_field_name_name).isNone
    /\ (pc = "idle" /\ outcome = "failed")
          => file = (IF started.exists THEN StartedFile ELSE OnDisk(default_http_header_c))
    /\ pc # "idle"
          => file = (IF started.exists THEN StartedFile ELSE OnDisk(default_http_header_c))

\* C10: a run whose retained rows repeat a numeric id never completes.
C10_DuplicateIdRowsAbort == ~(pc = "idle" /\ outcome = "ok" /\ dupRows)

-----------------------------------------------------------------------------
(* Properties of the patch study *)

\* C3: synchronizing a block again with the same registry rows changes nothing.
C3_SecondSyncIsIdentical == spc \in {"enum2", "macro2"} => sOut[2] = sOut[1]

\* out is pre, one block of tokens from first to last, and post
OnlyBlockChanged(out, pre, post, first, last) ==
    /\ Len(out) >= Len(pre) + Len(post) + 2
    /\ SubSeq(out, 1, Len(pre)) = pre
    /\ SubSeq(out, Len(out) - Len(post) + 1, Len(out)) = post
    /\ out[Len(pre) + 1] = first
    /\ out[Len(out) - Len(post)] = last
    /\ \A i \in (Len(pre) + 1)..(Len(out) - Len(post) - 1) : out[i] # last

\* the 'typedef enum ' that opens the block whose '{' is token j
BlockStart(doc, j) ==
    CHOOSE i \in 1..j : doc[i].k = "te" /\ \A x \in (i + 1)..j : doc[x].k # "te"

\* C4: when the document contains the named block, the text before its start
\* delimiter and the text after its end delimiter are the same in the output.
C4_TextOutsideBlockUnchanged ==
    /\ spc = "enum1"
         => LET m == EnumSearchFrom(sIn.doc, 1, http_status_code_t)
                b == BlockStart(sIn.doc, m.open)
            IN  m.found => OnlyBlockChanged(sOut[1], SubSeq(sIn.doc, 1, b - 1),
                                            SubSeq(sIn.doc, m.close + 1, Len(sIn.doc)),
                                            TE, RB(http_status_code_t))
    /\ spc = "macro1"
         => LET i == MacroStartFrom(sIn.doc, 1, http_field_name_name, FALSE)
                k == FirstEndAfter(sIn.doc, i, http_field_name_name, FALSE)
            IN  i # 0 => OnlyBlockChanged(sOut[1], SubSeq(sIn.doc, 1, i - 1),
                                          SubSeq(sIn.doc, k + 1, Len(sIn.doc)),
                                          MS(http_field_name_name), ME(http_field_name_name))

-----------------------------------------------------------------------------
(* Properties of the merge study *)

Existing == CollectMatches(mIn.existing, 1, EmptyTable)

\* the names the merged entry of an id holds: its primary name and its alias
NamesOf(row) == {row.enum_name} \cup Range(row.depreciated_enum_name)

\* C6: under the default policy an id of both tables keeps the fresh name as
\* primary and holds every differing existing name as a deprecated alias.
C6_EveryDifferingNameIsAlias ==
    (mpc = "utils" /\ mIn.policy)
        => \A id \in DOMAIN Existing \cap DOMAIN mIn.fresh :
              /\ mOut.table[id].enum_name = mIn.fresh[id].enum_name
              /\ \A n \in Range(Existing[id]) :
                    n # mIn.fresh[id].enum_name
                        => n \in Range(mOut.table[id].depreciated_enum_name)

\* an id of both tables whose block binds exactly one name, not the fresh one
RenamedOnce(id) ==
    /\ id \in DOMAIN Existing \cap DOMAIN mIn.fresh
    /\ Len(Existing[id]) = 1
    /\ Existing[id][1] # mIn.fresh[id].enum_name

\* C7: under the default policy an id renamed once is rendered as the fresh
\* name followed by the old name as deprecated alias with its comment.
C7_RenamedIdKeepsBothNames ==
    (mpc = "utils" /\ mIn.policy)
        => \A id \in MergeIds :
              RenamedOnce(id)
                  => /\ mOut.table[id].enum_name = mIn.fresh[id].enum_name
                     /\ \E i \in 1..(Len(mOut.text) - 3) :
                           /\ mOut.text[i] = BIND(mIn.fresh[id].enum_name, id)
                           /\ mOut.text[i + 1] = COMMA
                           /\ mOut.text[i + 2] = BIND(Existing[id][1], id)
                           /\ mOut.text[i + 3] = DEPR
                     /\ Cardinality({i \in DOMAIN mOut.text :
                                        mOut.text[i].k = "bind" /\ mOut.text[i].v = id}) = 2

C7_Witness == mpc = "utils" /\ mIn.policy /\ \E id \in MergeIds : RenamedOnce(id)

\* C8: an id of the existing block that the fresh table lacks is carried with
\* all its existing names and no comment, and is rendered without a comment line.
C8_RetiredIdKeepsItsNames ==
    (mpc = "utils" /\ mIn.policy)
        => \A id \in DOMAIN Existing \ DOMAIN mIn.fresh :
              /\ mOut.table[id].comment = Absent
              /\ Range(Existing[id]) \subseteq NamesOf(mOut.table[id])
              /\ \E i \in 2..Len(mOut.text) :
                    /\ mOut.text[i] = BIND(Existing[id][1], id)
                    /\ mOut.text[i - 1].k # "cmt"

\* the name an id is bound to last in the existing block
LastExisting(id) == Existing[id][Len(Existing[id])]

Overridden(id) ==
    /\ id \in DOMAIN Existing \cap DOMAIN mIn.fresh
    /\ LastExisting(id) # mIn.fresh[id].enum_name

\* C9: under the existing-wins policy an id of both tables whose existing name
\* differs from the fresh name keeps the existing name as primary; the fresh
\* name is not emitted for it and no deprecated alias is recorded.
C9_ExistingNameWins ==
    ((mpc = "utils" /\ ~mIn.policy) \/ mpc = "standalone")
        => \A id \in MergeIds :
              Overridden(id)
                  => /\ mOut.table[id].enum_name = LastExisting(id)
                     /\ mOut.table[id].depreciated_enum_name = Absent
                     /\ \A i \in DOMAIN mOut.text :
                           mOut.text[i] # BIND(mIn.fresh[id].enum_name, id)
                     /\ \A i \in DOMAIN mOut.text : mOut.text[i] # DEPR

C9_Witness == mpc = "utils" /\ ~mIn.policy /\ \E id \in MergeIds : Overridden(id)

-----------------------------------------------------------------------------
(* Properties of the patcher on documents without the block, or with it *)

\* the tokens of text that read '} NAME;' / the Start marker of section NAME
EnumBlocksIn(text, name) == {i \in DOMAIN text : text[i] = RB(name)}
SectionsIn(text, name) == {i \in DOMAIN text : text[i] = MS(name)}

\* the rendered status-code block / field-name section of the patch study
StudyEnumContent(doc) ==
    generate_c_enum_content(<<HEAD>>,
        override_enum_from_existing_typedef_enum(doc, http_status_code_t,
            iana_http_status_codes_parse_csv(sIn.rows, http_status_code_name), TRUE).value,
        http_range_marker)

\* C11: a document without the named block comes out as itself, unchanged,
\* followed by exactly one new block of that name holding the rendered content.
C11_AbsentBlockIsAppended ==
    /\ (spc = "enum1" /\ ~EnumSearchFrom(sIn.doc, 1, http_status_code_t).found)
          => sOut[1] = (sIn.doc \o <<TE, WORD(http_status_code_t), LB, NL>>)
                       \o (StudyEnumContent(sIn.doc \o EmptyEnumBlock(http_status_code_t))
                           \o <<RB(http_status_code_t), NL, NL>>)
    /\ (spc = "macro1" /\ get_content_of_const_macro(sIn.doc, http_field_name_name).isNone)
          => /\ Len(sOut[1]) >= Len(sIn.doc) + 3
             /\ SubSeq(sOut[1], 1, Len(sIn.doc)) = sIn.doc
             /\ sOut[1][Len(sIn.doc) + 1] = MS(http_field_name_name)
             /\ sOut[1][Len(sOut[1])] = ME(http_field_name_name)
             /\ Cardinality(SectionsIn(sOut[1], http_field_name_name)) = 1

StudyMacroContent ==
    LET c_macro_list == iana_http_field_namess_parse_csv(sIn.fields, http_field_name_name)
    IN  <<MHEAD>> \o MacroLines(c_macro_list, SortedStr(DOMAIN c_macro_list), 1)

\* C12: a document that holds the named block, its body empty or not, comes
\* out with exactly one block of that name, and that block holds the rendered
\* content.
C12_ExistingBlockReplacedInPlace ==
    /\ (spc = "enum1" /\ EnumSearchFrom(sIn.doc, 1, http_status_code_t).found)
          => /\ Cardinality(EnumBlocksIn(sOut[1], http_status_code_t)) = 1
             /\ get_content_of_typedef_enum(sOut[1], http_status_code_t)
                    = Some(<<NL>> \o StudyEnumContent(sIn.doc))
    /\ (spc = "macro1" /\ ~get_content_of_const_macro(sIn.doc, http_field_name_name).isNone)
          => /\ Cardinality(SectionsIn(sOut[1], http_field_name_name)) = 1
             /\ get_content_of_const_macro(sOut[1], http_field_name_name)
                    = Some(<<NL>> \o StudyMacroContent)

-----------------------------------------------------------------------------
(* Properties of the pass study *)

\* the text of the first block of text that closes with '} NAME;', '' if none
BlockText(text, name) ==
    LET closes == EnumBlocksIn(text, name)
    IN  IF closes = {} THEN <<>>
        ELSE LET k == CHOOSE x \in closes : \A y \in closes : x <= y
                 j == CHOOSE x \in 1..k : text[x].k = "lb" /\ \A y \in (x + 1)..k : text[y].k # "lb"
             IN  SubSeq(text, BlockStart(text, j), k)

\* the names bound by the entries of a piece of text
NamesBoundIn(text) == {text[i].s : i \in {j \in DOMAIN text : text[j].k = "bind"}}

TableNames(c_enum_list) == {c_enum_list[id].enum_name : id \in DOMAIN c_enum_list}

\* the body a block of the document gets from its own synchronization alone
OwnUtils(doc, name, c_enum_list, c_range_marker) ==
    LET d == IF Not(get_content_of_typedef_enum(doc, name))
             THEN doc \o EmptyEnumBlock(name) ELSE doc
    IN  <<NL>> \o generate_c_enum_content(<<HEAD>>,
                     override_enum_from_existing_typedef_enum(d, name, c_enum_list, TRUE).value,
                     c_range_marker)

OwnCoap(doc, name, c_enum_list, c_range_marker) ==
    LET d == IF Not(coap_get_content_of_typedef_enum(doc, name))
             THEN doc \o EmptyEnumBlock(name) ELSE doc
        matches == FindAllTokens(coap_get_content_of_typedef_enum(d, name).str, 1)
    IN  (<<NL>> \o coap_generate_c_enum_content(<<HEAD>>,
                       coap_override_enum_from_existing_typedef_enum(matches, c_enum_list),
                       c_range_marker)) \o <<NL>>

\* C13: synchronizing one block leaves the text of the block of another name,
\* one that has the first name as a substring, as it was; no identifier bound
\* in the other block enters the merged table; and after the pass over both
\* blocks each holds the result of its own synchronization.
C13_OtherBlockUntouched ==
    /\ spc \in {"utilsA", "coapA"}
          => BlockText(sOut[1], http_status_code_t) = BlockText(sIn.doc, http_status_code_t)
    /\ spc \in {"utilsB", "coapB"}
          => /\ BlockText(sOut[2], other_t) = BlockText(sOut[1], other_t)
             /\ Cardinality(EnumBlocksIn(sOut[2], other_t))
                    = Cardinality(EnumBlocksIn(sOut[1], other_t))
             /\ NamesBoundIn(BlockText(sOut[2], http_status_code_t))
                    \subseteq TableNames(PassTableB) \cup {OLD}
    /\ spc = "utilsB"
          => /\ get_content_of_typedef_enum(sOut[2], other_t)
                    = Some(OwnUtils(sIn.doc, other_t, PassTableA, <<>>))
             /\ get_content_of_typedef_enum(sOut[2], http_status_code_t)
                    = Some(OwnUtils(sIn.doc, http_status_code_t, PassTableB, http_range_marker))
    /\ spc = "coapB"
          => /\ coap_get_content_of_typedef_enum(sOut[2], other_t)
                    = Some(OwnCoap(sIn.doc, other_t, PassTableA, <<>>))
             /\ coap_get_content_of_typedef_enum(sOut[2], http_status_code_t)
                    = Some(OwnCoap(sIn.doc, http_status_code_t, PassTableB, http_range_marker))

\* both blocks were there and both were given rows
C13_Witness ==
    /\ spc \in {"utilsB", "coapB"}
    /\ EnumBlocksIn(sIn.doc, http_status_code_t) # {}
    /\ NamesBoundIn(BlockText(sIn.doc, other_t)) # {}
    /\ sIn.rows # <<>> /\ sIn.rowsA # <<>>
    /\ sOut[2] # sOut[1]

-----------------------------------------------------------------------------
(* Properties of the extractors *)

-----------------------------------------------------------------------------
(* Properties of the renderer *)

Rendered == mpc \in {"rendered", "renderedStandalone"}

\* where the comment of the i-th range marker stands in the rendered text
MarkerAt(i) == {j \in DOMAIN mOut : mOut[j] = RM(i)}
\* where the entry lines stand
BindAt == {j \in DOMAIN mOut : mOut[j].k = "bind"}

\* C15: the rendered text holds the comment of every range marker of the list
\* exactly once, for every table, the empty one included.
C15_EveryMarkerOnce ==
    Rendered => /\ \A i \in DOMAIN mIn.markers : Cardinality(MarkerAt(i)) = 1
                /\ \A j \in DOMAIN mOut : mOut[j].k = "rm" => mOut[j].v \in DOMAIN mIn.markers

\* some marker is beyond every id of the table: it is flushed after the entries
C15_Witness ==
    /\ mpc = "rendered" /\ mIn.markers # <<>> /\ mIn.table # EmptyTable
    /\ \E i \in DOMAIN mIn.markers :
          /\ \A id \in DOMAIN mIn.table : id < mIn.markers[i].start
          /\ \A j \in BindAt : \A k \in MarkerAt(i) : j < k

Ascending(c_range_marker) ==
    \A i, j \in DOMAIN c_range_marker :
        i < j => c_range_marker[i].start < c_range_marker[j].start

FollowedBy(j, tok) ==
    LET n == IF j + 1 <= Len(mOut) /\ mOut[j + 1] = DEPR THEN j + 2 ELSE j + 1
    IN  n <= Len(mOut) /\ mOut[n] = tok

\* C17: every entry line 'name = id', primary or alias, ends with a comma,
\* except the last one of the block, which ends without one.
C17_CommaExceptLast ==
    Rendered
        => \A j \in BindAt :
              IF \E k \in BindAt : k > j THEN FollowedBy(j, COMMA) ELSE FollowedBy(j, NL)

\* the last entry carries an alias and markers are flushed after it
C17_Witness ==
    /\ mpc = "rendered" /\ BindAt # {}
    /\ LET j == CHOOSE x \in BindAt : \A y \in BindAt : y <= x
       IN  /\ j + 1 <= Len(mOut) /\ mOut[j + 1] = DEPR
           /\ \E k \in DOMAIN mOut : k > j /\ mOut[k].k = "rm"
    /\ Cardinality(DOMAIN mIn.table) >= 2

\* the rendered ids inside the range of the i-th marker
IdsInRange(i) ==
    {id \in DOMAIN mIn.table : mIn.markers[i].start <= id /\ id <= mIn.markers[i].end}

\* the token at p stands directly in front of an entry: nothing but the
\* entry's own comment line is between them
DirectlyBeforeEntry(p) ==
    \/ p + 1 \in BindAt
    \/ p + 1 \in DOMAIN mOut /\ mOut[p + 1].k = "cmt" /\ p + 2 \in BindAt

\* a marker with ids in its range stands before the first of them
MarkerBeforeFirstIdInRange ==
    \A i \in DOMAIN mIn.markers : \A p \in MarkerAt(i) :
        IdsInRange(i) # {} =>
            \E j \in BindAt :
                /\ p < j /\ mOut[j].v \in IdsInRange(i)
                /\ \A id \in IdsInRange(i) : mOut[j].v <= id

\* a marker with no id in its range is not directly in front of an entry
EmptyMarkerNotBeforeEntry ==
    \A i \in DOMAIN mIn.markers : \A p \in MarkerAt(i) :
        IdsInRange(i) = {} => ~DirectlyBeforeEntry(p)

\* C21: for an ascending marker list, each range marker comment stands before
\* the first entry whose id is inside the marker's range [start, end], and a
\* marker whose range holds none of the rendered ids is never placed directly
\* in front of an entry, whose id is then outside that range
C21_MarkerBeforeFirstIdOfItsRange ==
    (Rendered /\ Ascending(mIn.markers)) =>
        MarkerBeforeFirstIdInRange /\ EmptyMarkerNotBeforeEntry

-----------------------------------------------------------------------------
(* The extractor and the text of comments *)

\* the bindings of the entry lines `name = id` of a block body, in text order
RECURSIVE EntryLines(_, _)
EntryLines(body, i) ==
    IF i > Len(body) THEN <<>>
    ELSE (IF body[i].k = "bind"
          THEN <<[enum_name |-> body[i].s, enum_value |-> body[i].v]>> ELSE <<>>)
         \o EntryLines(body, i + 1)

\* id -> names for the entry lines alone
BoundByEntryLines(body) == CollectMatches(EntryLines(body, 1), 1, EmptyTable)

\* C22: for a block that is present, the extractor returns for each id exactly
\* the identifiers its entry lines `name = id` bind; the text of a comment of
\* the block contributes no name, even if it reads word=digits
C22_CommentsContributeNoName ==
    /\ (spc = "extracted" /\ ~get_content_of_typedef_enum(sIn.doc, http_status_code_t).isNone)
          => sOut[1] = Return(BoundByEntryLines(
                          get_content_of_typedef_enum(sIn.doc, http_status_code_t).str))
    /\ spc = "extractedGenerated"
          => sOut[2] = Return(BoundByEntryLines(
                          get_content_of_typedef_enum(sOut[1], http_status_code_t).str))

-----------------------------------------------------------------------------
(* Properties of the cleaning step of the CBOR tag synthesizer *)

\* the description is wholly wrapped in one pair [...] or (...)
WhollyWrapped(d) ==
    /\ Len(d) >= 2
    /\ \/ d[1] = "[" /\ d[Len(d)] = "]"
       \/ d[1] = "(" /\ d[Len(d)] = ")"
    /\ \A i \in 2..(Len(d) - 1) : d[i] \notin {"[", "]", "(", ")"}

\* t without its opening bracket and without its closing bracket, if it still
\* ends with one, and without any other loss
Unwrapped(t) ==
    IF t # <<>> /\ t[Len(t)] \in {"]", ")"} THEN SubSeq(t, 2, Len(t) - 1)
    ELSE SubSeq(t, 2, Len(t))

\* C24: for a description wholly wrapped in one bracket pair the cleaning step
\* removes exactly the opening and the closing bracket and no other character,
\* also when a 'defined in' clause inside the brackets was stripped first
C24_UnwrapRemovesOnlyBrackets ==
    (spc = "cleaned" /\ WhollyWrapped(sIn)) =>
        sOut = Return(StripSpace(Unwrapped(CutDefinedIn(sIn, 1))))

-----------------------------------------------------------------------------
(* Properties of the abbreviation step of the CBOR tag synthesizer *)

\* the terms with every stop word dropped and every word of the secondary
\* dictionary abbreviated
StopWordsDroppedRestAbbreviated(terms) ==
    LET kept == SelectSeq(terms, LAMBDA term : Lower(term) \notin common_words)
    IN  [i \in DOMAIN kept |-> Abbreviated(word_abbreviations, kept[i])]

\* C25: the secondary dictionary and the stop-word removal apply exactly when
\* the summed length of the terms, measured after the always-on abbreviations,
\* is >= 40: below, the terms pass unchanged; from 40 on, every term of the
\* secondary dictionary is abbreviated and every stop word is dropped
C25_LossyAbbreviationFromForty ==
    (spc = "abbreviated" /\ ~sOut.raised) =>
        LET terms == VeryCommonTerms(NameWords(sIn))
        IN  sOut.value =
                Upper(JoinUnderscore(IF TotalLen(terms) >= LongDescription
                                     THEN StopWordsDroppedRestAbbreviated(terms)
                                     ELSE terms))

-----------------------------------------------------------------------------
(* Properties of the CBOR tag table *)

\* the fresh table the rows give, when the parse returns
FreshTagTable == iana_cbor_tag_parse_csv(sIn.rows, cbor_tag_name)

\* two entries of the fresh table, under different ids, carry one name
TwoTagsNamedAlike ==
    \E table \in {FreshTagTable} :
        /\ ~table.raised
        /\ \E j, k \in DOMAIN table.value :
              j # k /\ table.value[j].enum_name = table.value[k].enum_name

\* the call ended the process with this exit status
ExitedWith(out, status) == out.raised /\ out.error = "SystemExit" /\ out.value = status

\* C26: if two distinct rows of the fresh tag table synthesize the same
\* identifier, iana_cbor_tag_c_typedef_enum_update ends the process with exit
\* status 1 and returns no merged or patched text, and the run does not write
\* synchronized content to the header file; names that only the existing block
\* holds do not count: without a duplicate in the fresh table there is no exit 1
C26_DuplicateNamesExitBeforePatch ==
    /\ (spc = "tagUpdated" /\ ~FreshTagTable.raised) =>
          ExitedWith(sOut, 1) = TwoTagsNamedAlike
    /\ (pc = "done" /\ TwoTagsNamedAlike) =>
          file = (IF started.exists THEN OnDisk(started.text)
                  ELSE OnDisk(default_cbor_header_c))

\* two rows with different ids are named alike, the artifact holds a tag
\* block, and both the call and the run have ended
C26_Witness ==
    /\ spc = "tagUpdated" /\ pc = "done"
    /\ ~FreshTagTable.raised
    /\ Cardinality(DOMAIN FreshTagTable.value) = 2
    /\ TwoTagsNamedAlike
    /\ started.exists /\ EnumBlocksIn(sIn.doc, cbor_tag_t) # {}
    /\ ExitedWith(sOut, 1)

-----------------------------------------------------------------------------
(* Properties of the standalone CBOR generator *)

\* the ids the block of the artifact binds and the registry rows do not list
RetiredIds ==
    LET existing == coap_get_content_of_typedef_enum(sIn.doc, http_status_code_t)
    IN  IF existing.isNone THEN {}
        ELSE {existing.str[i].v : i \in {j \in DOMAIN existing.str : existing.str[j].k = "bind"}}
             \ DOMAIN iana_http_status_codes_parse_csv(sIn.rows, http_status_code_name)

\* C27: in the standalone CBOR generator, synchronizing a block whose text
\* binds an id the registry no longer lists completes, and the new text holds
\* a line `name = id` for that id with no comment line in front of it
C27_RetiredIdRenderedWithoutComment ==
    (spc = "cborStandalone" /\ RetiredIds # {}) =>
        /\ ~sOut[1].raised
        /\ \A id \in RetiredIds :
              \E j \in DOMAIN sOut[1].value :
                 /\ sOut[1].value[j].k = "bind" /\ sOut[1].value[j].v = id
                 /\ j > 1 /\ sOut[1].value[j - 1].k # "cmt"

-----------------------------------------------------------------------------
(* Properties of the macro section updater *)

\* the macro names the text defines
MacrosDefinedIn(text) == {text[i].s : i \in {j \in DOMAIN text : text[j].k = "def"}}

\* C28: after update_c_const_macro the section holds the head comment followed
\* by exactly one #define per key of the supplied macro list, in ascending key
\* order; a macro of the previous section body survives only if its name is a
\* key of the supplied list
C28_MacroSectionFullyReplaced ==
    spc = "macro1" =>
        LET section == get_content_of_const_macro(sOut[1], http_field_name_name)
            c_macro_list == iana_http_field_namess_parse_csv(sIn.fields, http_field_name_name)
        IN  /\ ~section.isNone
            /\ section.str = <<NL>> \o StudyMacroContent
            /\ MacrosDefinedIn(sOut[1]) \subseteq DOMAIN c_macro_list

-----------------------------------------------------------------------------
(* Properties of the fetch *)

\* the requests the call makes are answered, the download with status 200
RequestsAnswered ==
    /\ mIn.get.error = "" /\ mIn.get.status_code = 200
    /\ mIn.cache.exists => mIn.head.error = ""

\* the registry was modified after the cache file was written
RemoteStrictlyNewer ==
    mIn.head.has_last_modified /\ mIn.head.last_modified > mIn.cache.mtime

CacheOverwritten == mOut.cache # mIn.cache

\* C29: read_or_download_csv downloads and overwrites the cache file exactly
\* when no cache file exists or the remote last-modified time is strictly newer
\* than the cache file's modification time; with a cache file and no
\* last-modified header, or a remote time not newer than the cache's, it
\* returns the cached content and leaves the cache file as it was
C29_DownloadExactlyWhenStale ==
    (mpc = "fetched" /\ RequestsAnswered) =>
        /\ CacheOverwritten <=> (~mIn.cache.exists \/ RemoteStrictlyNewer)
        /\ (mIn.cache.exists /\ ~RemoteStrictlyNewer) =>
                /\ ~mOut.result.raised
                /\ mOut.result.value = UniversalNewlines(mIn.cache.text)
                /\ mOut.cache = mIn.cache

\* C30: whenever read_or_download_csv returns, on any path (fresh download,
\* valid cache, missing last-modified header, fallback after a connection
\* error), the text it returns equals the content of the cache file at the
\* moment of return
C30_ReturnedTextIsCacheContent ==
    (mpc = "fetched" /\ ~mOut.result.raised) =>
        /\ mOut.cache.exists
        /\ mOut.result.value = mOut.cache.text

====
